---------------------------- MODULE Spec2Model ----------------------------
(***************************************************************************)
(* One invocation of the host library of trigger.dev-rails                 *)
(* (src/src/index.ts) running one child process that uses the Ruby helper  *)
(* (src/src/ruby/trigger_dev.rb).                                          *)
(*                                                                         *)
(* src/src/index.ts holds two variants of the host library:                *)
(*   "rails"  ruby.runRailsScript, lines 104-337: the line handler calls   *)
(*            processEventLine and re-wraps the returned promise;          *)
(*   "exec"   _executeRubyCommand, lines 452-566: the line handler chains  *)
(*            the event handler on eventChain itself.                      *)
(* The variable `variant` fixes which one an invocation runs.              *)
(*                                                                         *)
(* A line of text is a sequence of tokens; the event prefix is one token   *)
(* and a JSON text is one token.  A promise is an entry of `promises`;     *)
(* promise 0 is the already fulfilled Promise.resolve() the chain starts   *)
(* with.                                                                   *)
(***************************************************************************)
EXTENDS Integers, Sequences, FiniteSets, TLC

VARIABLES
    variant,        \* "rails" | "exec": which run operation was called
    build,          \* what onBuildComplete of the build extension has done
    client,         \* the Ruby helper's API client: ENV, @api_key, @api_url,
                    \* the calls of trigger and the requests it has sent
    request,        \* the arguments and the surroundings of the call
    launch,         \* what the call came to: the command and environment of
                    \* the child it spawned, or that it refused to spawn one
    childState,     \* "unborn" (not spawned) | "spawning" | "running" | "blocked"
                    \* | "exited" (by itself) | "killed" (by a signal)
                    \* | "failed" (spawn failure)
    blockedOn,      \* stream position of the wait event the child blocks on, or 0
    emitted,        \* lines the child has written to stdout so far
    written,        \* those lines, in the order written
    partial,        \* what the child has written since its last newline
    stderrPipe,     \* chunks written to stderr and not yet read by the host
    stdoutPipe,     \* lines written by the child and not yet read by the host
    stdinBuf,       \* lines written to the child's stdin and not yet read
    stdinDestroyed, \* proc.stdin.destroyed
    stdoutLines,    \* const stdoutLines: string[]
    stderrChunks,   \* const stderrChunks: string[]
    promises,       \* the promises created by the line handler, in creation order
    eventChain,     \* let eventChain: index into promises, 0 = Promise.resolve()
    closePc,        \* the 'close' callback: "idle" | "awaiting" | "done"
    closeCode,      \* the code argument of the 'close' callback: <<n>>, or <<>>
                    \* for null
    awaited,        \* the promise the 'close' callback awaits
    outcome,        \* the state of the promise returned to the caller
    ackLog,         \* the calls of proc.stdin.write, by the promise that made them
    callLog,        \* the calls of host operations and of logger.error, in order
    procs,          \* two invocations side by side: the child process of each
    runs            \* two invocations side by side: the host state of each

vars == <<variant, build, client, procs, runs, request, launch, childState, blockedOn,
          emitted, written, partial, stdoutPipe, stderrPipe, stdinBuf, stdinDestroyed, stdoutLines, stderrChunks,
          promises, eventChain, closePc, closeCode, awaited, outcome, ackLog,
          callLog>>

childVars == <<childState, blockedOn, emitted, written, partial, stdinBuf>>
hostVars  == <<stdoutLines, stderrChunks, promises, eventChain, closePc,
               closeCode, awaited, outcome, ackLog, callLog>>

---------------------------------------------------------------------------
(* Bounds *)

MaxLines == 3

\* Chunks of stderr one child writes.
MaxChunks == 2

\* Calls of the helper one child makes where the arguments are looked at.
MaxCalls == 2

\* Tokens a child writes without a newline before its next line.
MaxPrints == 1

\* At most MaxTriggers calls of trigger by the helper's API client.
MaxTriggers == 2

---------------------------------------------------------------------------
(* Text, JSON and events *)

TRIGGER_EVENT_PREFIX == "__TRIGGER_EVENT__:"
EVENT_PREFIX == "__TRIGGER_EVENT__:"

\* line.startsWith(prefix)
startsWith(line, prefix) == Len(line) > 0 /\ line[1] = prefix

\* line.slice(TRIGGER_EVENT_PREFIX.length): the text after the prefix
slice(line) == Tail(line)

\* Ruby values (a String, an Integer, a Time) and JavaScript values (a
\* string, a number, undefined, a Date), each with its text.
RString(s)  == <<"String", s>>
RInteger(n) == <<"Integer", n>>
RTime(t)    == <<"Time", t>>

JSString(s) == <<"string", s>>
JSNumber(n) == <<"number", n>>
JSDate(ms)  == <<"Date", ms>>
JSUndefined == <<"undefined", "">>

\* A string between double quotes, as JSON writes it.
Quoted ==
    "heartbeat"            :> "\"heartbeat\"" @@
    "wait.for"             :> "\"wait.for\"" @@
    "wait.until"           :> "\"wait.until\"" @@
    "log"                  :> "\"log\"" @@
    "metadata.set"         :> "\"metadata.set\"" @@
    "metadata.append"      :> "\"metadata.append\"" @@
    "processing row"       :> "\"processing row\"" @@
    "row"                  :> "\"row\"" @@
    "other text"           :> "\"other text\"" @@
    "k"                    :> "\"k\"" @@
    "2030-01-01T00:00:00Z" :> "\"2030-01-01T00:00:00Z\""

\* The key of a member with its colon, as JSON writes it.
KeyToken ==
    "type"    :> "\"type\":" @@
    "message" :> "\"message\":" @@
    "index"   :> "\"index\":" @@
    "seconds" :> "\"seconds\":" @@
    "minutes" :> "\"minutes\":" @@
    "hours"   :> "\"hours\":" @@
    "date"    :> "\"date\":" @@
    "key"     :> "\"key\":" @@
    "value"   :> "\"value\":"

\* The numbers of the model, as JSON writes them.
Digits == {"1", "5", "30"}

\* time.iso8601: the fraction of a second is dropped.
iso8601 ==
    RTime("2030-01-01 00:00:00 UTC")     :> RString("2030-01-01T00:00:00Z") @@
    RTime("2030-01-01 00:00:00.5 UTC")   :> RString("2030-01-01T00:00:00Z")

\* new Date(value): the instant of an ISO 8601 text in milliseconds, an
\* invalid Date for anything else.
NewDate(value) ==
    IF value = JSString("2030-01-01T00:00:00Z")
    THEN JSDate("1893456000000")
    ELSE JSDate("NaN")

\* A Ruby hash is the sequence of its <<key, value>> pairs in insertion
\* order.  hash[key] = value
Store(hash, key, value) ==
    IF \E i \in DOMAIN hash : hash[i][1] = key
    THEN [i \in DOMAIN hash |->
             IF hash[i][1] = key THEN <<key, value>> ELSE hash[i]]
    ELSE Append(hash, <<key, value>>)

\* hash.merge(other): the pairs of other replace or follow those of hash.
RECURSIVE merge(_, _)
merge(hash, other) ==
    IF other = <<>> THEN hash
    ELSE merge(Store(hash, other[1][1], other[1][2]), Tail(other))

\* JSON.generate of a String or an Integer.
ValueToken(v) == IF v[1] = "String" THEN Quoted[v[2]] ELSE v[2]

RECURSIVE Members(_)
Members(hash) ==
    IF hash = <<>> THEN <<>>
    ELSE <<KeyToken[hash[1][1]], ValueToken(hash[1][2])>>
         \o (IF Len(hash) > 1 THEN <<",">> ELSE <<>>)
         \o Members(Tail(hash))

\* JSON.generate(event): the text as a sequence of tokens.
JSONGenerate(hash) == <<"{">> \o Members(hash) \o <<"}">>

\* The members of a JSON object between its braces, read from the left: a
\* key, a value, and a comma before every further member.
RECURSIVE ParseMembers(_)
ParseMembers(text) ==
    IF text = <<>> THEN [ok |-> TRUE, members |-> <<>>]
    ELSE IF /\ Len(text) >= 2
            /\ \E k \in DOMAIN KeyToken : KeyToken[k] = text[1]
            /\ \/ text[2] \in Digits
               \/ \E s \in DOMAIN Quoted : Quoted[s] = text[2]
    THEN LET key    == CHOOSE k \in DOMAIN KeyToken : KeyToken[k] = text[1]
             value  == IF text[2] \in Digits
                       THEN JSNumber(text[2])
                       ELSE JSString(CHOOSE s \in DOMAIN Quoted :
                                         Quoted[s] = text[2])
             rest   == SubSeq(text, 3, Len(text))
             parsed == IF rest = <<>> THEN [ok |-> TRUE, members |-> <<>>]
                       ELSE IF rest[1] = "," /\ Len(rest) > 1
                       THEN ParseMembers(Tail(rest))
                       ELSE [ok |-> FALSE, members |-> <<>>]
         IN  [ok |-> parsed.ok,
              members |-> <<<<key, value>>>> \o parsed.members]
    ELSE [ok |-> FALSE, members |-> <<>>]

\* The value of key among the members; the last one counts.
Lookup(members, key) ==
    LET I == {i \in DOMAIN members : members[i][1] = key}
    IN  IF I = {} THEN JSUndefined
        ELSE members[CHOOSE i \in I : \A j \in I : j <= i][2]

\* The object with these members.
ObjectOf(members) ==
    [type   |-> IF Lookup(members, "type")[1] = "string"
                THEN Lookup(members, "type")[2] ELSE "undefined",
     null   |-> FALSE,
     fields |-> {<<members[i][1], Lookup(members, members[i][1])>> :
                    i \in DOMAIN members}]

\* event.key of the object event.
Field(event, key) ==
    LET S == {f \in event.fields : f[1] = key}
    IN  IF S = {} THEN JSUndefined ELSE (CHOOSE f \in S : TRUE)[2]

\* Mutant of Rest: the whole event is passed on.
Rest_WholeEvent(event, named) == event.fields

\* const { type, message, ...attrs } = event: the properties but those
\* named.
Rest(event, named) == {f \in event.fields : f[1] \notin named}

\* The arguments of a call of a host operation: the positional values and
\* the object passed after them, if any.
Arguments(values, object, hasObject) ==
    [values |-> values, object |-> object, hasObject |-> hasObject]

NoArguments == Arguments(<<>>, {}, FALSE)

\* Mutant of LogArguments: the attributes are passed also when there are
\* none.
LogArguments_EmptyMapping(event) ==
    Arguments(<<Field(event, "message")>>, Rest(event, {"type", "message"}),
              TRUE)

\* logger.log(message, Object.keys(attrs).length ? attrs : undefined) after
\* const { type, message, ...attrs } = event
LogArguments(event) ==
    Arguments(<<Field(event, "message")>>, Rest(event, {"type", "message"}),
              Rest(event, {"type", "message"}) # {})

\* The JSON texts of the events the Ruby helper writes (JSON.generate of the
\* hash each public method passes to emit_event), and one text with a type
\* tag the host does not know.
HeartbeatJson      == "{\"type\":\"heartbeat\"}"
WaitForJson        == "{\"type\":\"wait.for\",\"seconds\":30}"
WaitUntilJson      == "{\"type\":\"wait.until\",\"date\":\"2030-01-01T00:00:00Z\"}"
LogJson            == "{\"type\":\"log\",\"message\":\"m\"}"
MetadataSetJson    == "{\"type\":\"metadata.set\",\"key\":\"k\",\"value\":1}"
MetadataAppendJson == "{\"type\":\"metadata.append\",\"key\":\"k\",\"value\":1}"
OtherJson          == "{\"type\":\"other\"}"

\* JSON texts that are no object with a type tag.
NullJson   == "null"
NumberJson == "5"
StringJson == "\"text\""
NoTypeJson == "{\"seconds\":30}"

\* A JavaScript value as handleTriggerEvent sees it: what reading its
\* property `type` yields, whether the value is null, where reading a
\* property throws a TypeError, and its own properties as <<key, value>>
\* pairs.  A number, a string and an object without the key yield undefined.
Obj(tag) == [type |-> tag, null |-> FALSE, fields |-> {}]
JSNull   == [type |-> "undefined", null |-> TRUE, fields |-> {}]

\* The object with the type tag and the further properties given.
Evt(tag, fields) ==
    [type |-> tag, null |-> FALSE,
     fields |-> {<<"type", JSString(tag)>>} \cup fields]

\* An object without a type tag.
Untyped(fields) == [type |-> "undefined", null |-> FALSE, fields |-> fields]

\* The value JSON.parse yields for each JSON text of the model.
JSONTable ==
    HeartbeatJson      :> Evt("heartbeat", {}) @@
    WaitForJson        :> Evt("wait.for", {<<"seconds", JSNumber("30")>>}) @@
    WaitUntilJson      :> Evt("wait.until",
                              {<<"date", JSString("2030-01-01T00:00:00Z")>>}) @@
    LogJson            :> Evt("log", {<<"message", JSString("m")>>}) @@
    MetadataSetJson    :> Evt("metadata.set", {<<"key", JSString("k")>>,
                                               <<"value", JSNumber("1")>>}) @@
    MetadataAppendJson :> Evt("metadata.append", {<<"key", JSString("k")>>,
                                                  <<"value", JSNumber("1")>>}) @@
    OtherJson          :> Evt("other", {}) @@
    NullJson           :> JSNull @@
    NumberJson         :> Obj("undefined") @@
    StringJson         :> Obj("undefined") @@
    NoTypeJson         :> Untyped({<<"seconds", JSNumber("30")>>})

\* Mutant of JSONParse: a text that is not JSON parses to a value without a
\* type tag.
JSONParse_Lenient(text) ==
    IF Len(text) = 1 /\ text[1] \in DOMAIN JSONTable
    THEN [ok |-> TRUE, value |-> JSONTable[text[1]]]
    ELSE IF Len(text) >= 2 /\ text[1] = "{" /\ text[Len(text)] = "}"
            /\ ParseMembers(SubSeq(text, 2, Len(text) - 1)).ok
    THEN [ok |-> TRUE,
          value |-> ObjectOf(ParseMembers(SubSeq(text, 2, Len(text) - 1)).members)]
    ELSE [ok |-> TRUE, value |-> Obj("undefined")]

\* JSON.parse(text): text is the token sequence after the prefix, either
\* one token that stands for a whole JSON text or an object written member
\* by member.  Anything else is a SyntaxError.
JSONParse(text) ==
    IF Len(text) = 1 /\ text[1] \in DOMAIN JSONTable
    THEN [ok |-> TRUE, value |-> JSONTable[text[1]]]
    ELSE IF Len(text) >= 2 /\ text[1] = "{" /\ text[Len(text)] = "}"
            /\ ParseMembers(SubSeq(text, 2, Len(text) - 1)).ok
    THEN [ok |-> TRUE,
          value |-> ObjectOf(ParseMembers(SubSeq(text, 2, Len(text) - 1)).members)]
    ELSE [ok |-> FALSE, value |-> Obj("SyntaxError")]

\* Mutant of handleTriggerEvent: the default case of the switch throws.
handleTriggerEvent_DefaultThrows(event) ==
    IF event.null
    THEN [op |-> "none", async |-> FALSE, needsAck |-> FALSE, throws |-> TRUE,
                 args |-> NoArguments]
    ELSE CASE event.type = "heartbeat" ->
                [op |-> "heartbeats.yield", async |-> TRUE, needsAck |-> FALSE,
                 throws |-> FALSE,
                 args |-> NoArguments]
           [] event.type = "wait.for" ->
                [op |-> "wait.for", async |-> TRUE, needsAck |-> TRUE,
                 throws |-> FALSE,
                 args |-> Arguments(<<>>, Rest(event, {"type"}), TRUE)]
           [] event.type = "wait.until" ->
                [op |-> "wait.until", async |-> TRUE, needsAck |-> TRUE,
                 throws |-> FALSE,
                 args |-> Arguments(<<>>, {<<"date", NewDate(Field(event, "date"))>>},
                                    TRUE)]
           [] event.type = "log" ->
                [op |-> "logger.log", async |-> FALSE, needsAck |-> FALSE,
                 throws |-> FALSE,
                 args |-> LogArguments(event)]
           [] event.type = "metadata.set" ->
                [op |-> "metadata.set", async |-> FALSE, needsAck |-> FALSE,
                 throws |-> FALSE,
                 args |-> Arguments(<<Field(event, "key"), Field(event, "value")>>,
                                    {}, FALSE)]
           [] event.type = "metadata.append" ->
                [op |-> "metadata.append", async |-> FALSE, needsAck |-> FALSE,
                 throws |-> FALSE,
                 args |-> Arguments(<<Field(event, "key"), Field(event, "value")>>,
                                    {}, FALSE)]
           [] OTHER ->
                [op |-> "none", async |-> FALSE, needsAck |-> FALSE,
                 throws |-> TRUE,
                 args |-> NoArguments]

\* async function handleTriggerEvent(event): the host operation the switch
\* invokes, whether the function awaits it, the boolean it returns, and
\* whether reading event.type throws before any case is reached.
handleTriggerEvent(event) ==
    IF event.null
    THEN [op |-> "none", async |-> FALSE, needsAck |-> FALSE, throws |-> TRUE,
                 args |-> NoArguments]
    ELSE CASE event.type = "heartbeat" ->
                [op |-> "heartbeats.yield", async |-> TRUE, needsAck |-> FALSE,
                 throws |-> FALSE,
                 args |-> NoArguments]
           [] event.type = "wait.for" ->
                [op |-> "wait.for", async |-> TRUE, needsAck |-> TRUE,
                 throws |-> FALSE,
                 args |-> Arguments(<<>>, Rest(event, {"type"}), TRUE)]
           [] event.type = "wait.until" ->
                [op |-> "wait.until", async |-> TRUE, needsAck |-> TRUE,
                 throws |-> FALSE,
                 args |-> Arguments(<<>>, {<<"date", NewDate(Field(event, "date"))>>},
                                    TRUE)]
           [] event.type = "log" ->
                [op |-> "logger.log", async |-> FALSE, needsAck |-> FALSE,
                 throws |-> FALSE,
                 args |-> LogArguments(event)]
           [] event.type = "metadata.set" ->
                [op |-> "metadata.set", async |-> FALSE, needsAck |-> FALSE,
                 throws |-> FALSE,
                 args |-> Arguments(<<Field(event, "key"), Field(event, "value")>>,
                                    {}, FALSE)]
           [] event.type = "metadata.append" ->
                [op |-> "metadata.append", async |-> FALSE, needsAck |-> FALSE,
                 throws |-> FALSE,
                 args |-> Arguments(<<Field(event, "key"), Field(event, "value")>>,
                                    {}, FALSE)]
           [] OTHER ->
                [op |-> "none", async |-> FALSE, needsAck |-> FALSE,
                 throws |-> FALSE,
                 args |-> NoArguments]

---------------------------------------------------------------------------
(* The Ruby helper *)

\* The public methods of the helper that emit an event.
Methods == {"heartbeat", "wait_for", "wait_until", "log", "set_metadata",
            "append_metadata"}

\* The JSON text of the hash each method passes to emit_event.
MethodJson(m) ==
    CASE m = "heartbeat"       -> HeartbeatJson
      [] m = "wait_for"        -> WaitForJson
      [] m = "wait_until"      -> WaitUntilJson
      [] m = "log"             -> LogJson
      [] m = "set_metadata"    -> MetadataSetJson
      [] m = "append_metadata" -> MetadataAppendJson

\* A call of a public method of the helper: its positional arguments and
\* its keyword arguments, a Ruby hash.  RNil is nil.
RNil == <<"NilClass", "">>

CallOf(m, pos, kw) == [m |-> m, pos |-> pos, kw |-> kw]

\* The value of key in a Ruby hash, nil when it has none.
Fetch(hash, key) ==
    IF \E i \in DOMAIN hash : hash[i][1] = key
    THEN hash[CHOOSE i \in DOMAIN hash : hash[i][1] = key][2]
    ELSE RNil

\* opts[:seconds] = seconds if seconds, and so on, in the order of wait_for.
RECURSIVE StoreGiven(_, _, _)
StoreGiven(opts, keys, kw) ==
    IF keys = <<>> THEN opts
    ELSE StoreGiven(IF Fetch(kw, Head(keys)) # RNil
                    THEN Store(opts, Head(keys), Fetch(kw, Head(keys)))
                    ELSE opts,
                    Tail(keys), kw)

\* The hash each public method passes to emit_event.
EventHash(c) ==
    CASE c.m = "heartbeat" ->
            <<<<"type", RString("heartbeat")>>>>
      [] c.m = "wait_for" ->
            StoreGiven(<<<<"type", RString("wait.for")>>>>,
                       <<"seconds", "minutes", "hours">>, c.kw)
      [] c.m = "wait_until" ->
            <<<<"type", RString("wait.until")>>, <<"date", iso8601[c.pos[1]]>>>>
      [] c.m = "log" ->
            merge(<<<<"type", RString("log")>>, <<"message", c.pos[1]>>>>, c.kw)
      [] c.m = "set_metadata" ->
            <<<<"type", RString("metadata.set")>>, <<"key", c.pos[1]>>,
              <<"value", c.pos[2]>>>>
      [] c.m = "append_metadata" ->
            <<<<"type", RString("metadata.append")>>, <<"key", c.pos[1]>>,
              <<"value", c.pos[2]>>>>

\* "#{EVENT_PREFIX}#{JSON.generate(event)}"
EventLine(c) == <<EVENT_PREFIX>> \o JSONGenerate(EventHash(c))

\* The calls a script makes in the invocations that look at arguments.
HelperCalls ==
    { CallOf("heartbeat", <<>>, <<>>),
      CallOf("wait_for", <<>>, <<<<"seconds", RInteger("30")>>>>),
      CallOf("wait_for", <<>>, <<<<"hours", RInteger("1")>>,
                                 <<"minutes", RInteger("5")>>,
                                 <<"seconds", RNil>>>>),
      CallOf("wait_until", <<RTime("2030-01-01 00:00:00.5 UTC")>>, <<>>),
      CallOf("log", <<RString("processing row")>>, <<>>),
      CallOf("log", <<RString("processing row")>>,
             <<<<"index", RInteger("5")>>>>),
      CallOf("log", <<RString("processing row")>>,
             <<<<"type", RString("row")>>>>),
      CallOf("log", <<RString("processing row")>>,
             <<<<"type", RString("wait.for")>>>>),
      CallOf("log", <<RString("processing row")>>,
             <<<<"message", RString("other text")>>>>),
      CallOf("set_metadata", <<RString("k"), RInteger("1")>>, <<>>),
      CallOf("append_metadata", <<RString("k"), RInteger("5")>>, <<>>) }

\* The wait_for_ack argument each method passes to emit_event.
WaitForAck(m) == m \in {"wait_for", "wait_until"}

\* Lines a script writes with a plain puts, not through the helper: program
\* output, a prefixed line whose payload is not JSON, and a prefixed event
\* with a type tag the host does not know.
RawLines == { <<"out">>,
              <<EVENT_PREFIX, "{not valid json">>,
              <<EVENT_PREFIX, OtherJson>> }

\* The exit statuses of a child that exits by itself.
ExitCodes == {0, 7}

\* What a script writes to stderr, as the chunks the host receives.
ErrChunks == { <<"warning">>, <<"E1", "\n", "E2", "\n">> }

\* Two invocations that run at the same time, and the lines each child
\* writes.
Runs == {1, 2}

MaxPairLines == 2

\* The scriptPath argument of the run operation.
scriptPath == "script.rb"

---------------------------------------------------------------------------
(* Promises *)

RECURSIVE Status(_)
\* Mutant of Status: the promise the line handler stores does not adopt the
\* chain and is fulfilled at once.
Status_NoAdopt(p) ==
    IF p = 0 THEN "fulfilled"
    ELSE LET q  == promises[p]
         IN  IF q.kind = "wrap" THEN "fulfilled"
             ELSE IF q.status = "pending" /\ Status(q.pred) = "rejected"
             THEN "rejected"
             ELSE q.status

\* The state of promise p: "pending", "running" (a handler whose host
\* operation is in flight), "fulfilled" or "rejected".  Promise 0 is
\* Promise.resolve(); a "wrap" promise adopts the state of the promise it
\* was resolved with; a handler attached by then() to a rejected promise is
\* skipped and its promise rejects.
Status(p) ==
    IF p = 0 THEN "fulfilled"
    ELSE LET q  == promises[p]
             ps == Status(q.pred)
         IN  IF q.kind = "wrap"
             THEN (IF ps \in {"fulfilled", "rejected"} THEN ps ELSE "pending")
             ELSE IF q.status = "pending" /\ ps = "rejected" THEN "rejected"
             ELSE q.status

Settled(p) == Status(p) \in {"fulfilled", "rejected"}

Handlers == {p \in DOMAIN promises : promises[p].kind = "handler"}

\* Mutant of ReadyToRun: the callback waits for the handler chained after it.
ReadyToRun_AfterNext(p) ==
    /\ promises[p].kind = "handler"
    /\ promises[p].status = "pending"
    /\ \E q \in DOMAIN promises : q > p /\ Status(q) = "fulfilled"

\* Mutant of ReadyToRun: the callback is not chained and runs at once.
ReadyToRun_Eager(p) ==
    /\ promises[p].kind = "handler"
    /\ promises[p].status = "pending"

\* eventChain.then(async () => {...}): the callback runs once the promise it
\* was attached to is fulfilled.
ReadyToRun(p) ==
    /\ promises[p].kind = "handler"
    /\ promises[p].status = "pending"
    /\ Status(promises[p].pred) = "fulfilled"

\* Mutant of HandlerStatus: the failure of the host operation escapes.
HandlerStatus_Rethrow(ok) == IF ok THEN "fulfilled" ELSE "rejected"

\* The promise of an event handler once its body has ended: the catch block
\* swallows the failure of the host operation.
HandlerStatus(ok) == "fulfilled"

\* Mutant of AckWanted: the catch block sends no acknowledgment.
AckWanted_NoCatchAck(event, ok) ==
    ok /\ handleTriggerEvent(event).needsAck

\* Whether the handler body calls for the acknowledgment: needsAck in the
\* try block, unconditionally in the catch block.
AckWanted(event, ok) ==
    IF ok THEN handleTriggerEvent(event).needsAck ELSE TRUE

\* Mutant of sendAcknowledgment: the write is not guarded.
sendAcknowledgment_Unguarded(destroyed) == TRUE

\* Mutant of sendAcknowledgment: the guard is the wrong way round.
sendAcknowledgment_Inverted(destroyed) == destroyed

\* sendAcknowledgment(proc): writes only when proc.stdin is not destroyed.
sendAcknowledgment(destroyed) == ~destroyed

\* Mutant of Settle: a later resolve or reject replaces the outcome.
Settle_Overwrite(cur, new) == new

\* resolve(v) / reject(e) of the returned promise.
Settle(cur, new) == IF cur.status = "pending" THEN new ELSE cur

\* Mutant of AwaitDone: the 'close' callback does not wait for the chain.
AwaitDone_NoWait(p) == TRUE

\* await eventChain in the 'close' callback.
AwaitDone(p) == Settled(p)

\* Mutant of Coalesce: a null code counts as 0.
Coalesce_NullIsZero(code) == IF code = <<>> THEN 0 ELSE code[1]

\* code ?? -1
Coalesce(code) == IF code = <<>> THEN -1 ELSE code[1]

RECURSIVE Join(_)
\* Mutant of Join: the lines are put together without the newline.
Join_NoNewline(lines) ==
    IF lines = <<>> THEN <<>> ELSE lines[1] \o Join(Tail(lines))

\* stdoutLines.join("\n"): the lines with a newline between neighbours.
Join(lines) ==
    IF lines = <<>> THEN <<>>
    ELSE IF Len(lines) = 1 THEN lines[1]
    ELSE lines[1] \o <<"\n">> \o Join(Tail(lines))

RECURSIVE Concat(_)
\* Mutant of Concat: only the first chunk is kept.
Concat_FirstOnly(chunks) == IF chunks = <<>> THEN <<>> ELSE chunks[1]

\* stderrChunks.join(""): the chunks one after the other.
Concat(chunks) ==
    IF chunks = <<>> THEN <<>> ELSE chunks[1] \o Concat(Tail(chunks))

\* The returned promise: its state, why it rejected, the fields of the
\* result it resolved with and the message of the Error it rejected with.
Pending == [status |-> "pending", reason |-> "", exitCode |-> 0, stdout |-> <<>>,
            stderr |-> <<>>, message |-> <<>>]

---------------------------------------------------------------------------
(* The run operations up to the spawn of the child *)

\* The names of the environment variables of the model.
Names == {"HOME", "RUBY_BIN_PATH", "RAILS_BIN_PATH", "GREETING", "TRACEPARENT",
          "OTEL_RESOURCE_ATTRIBUTES", "OTEL_LOG_LEVEL"}

\* An environment, or an object like options.env, is a function from the
\* names it has to their values.  The value of a name: no such key, a key
\* whose value is undefined (objects only), or a text.  A text is a
\* sequence of tokens; DQ is a double quote, EscapedDQ a backslash followed
\* by a double quote, HomeRef the characters $HOME.
Unset     == [kind |-> "unset", text |-> <<>>]
Undefined == [kind |-> "undefined", text |-> <<>>]
Text(t)   == [kind |-> "text", text |-> t]

DQ        == "\""
EscapedDQ == "\\\""
HomeRef   == "$HOME"

EmptyEnv == [k \in {} |-> Unset]

\* env[key], process.env.KEY
ValueOf(env, key) == IF key \in DOMAIN env THEN env[key] ELSE Unset

\* The environment or object with the names whose value is a text or
\* undefined.
Only(values) ==
    [k \in {n \in DOMAIN values : values[n].kind # "unset"} |-> values[k]]

\* {...a, ...b}: every own key of b, a key with the value undefined
\* included, replaces the key of a.
Spread(a, b) ==
    [k \in DOMAIN a \cup DOMAIN b |-> IF k \in DOMAIN b THEN b[k] ELSE a[k]]

\* a || b on an environment variable: unset and the empty text are falsy.
OrElse(a, b) == IF a.kind = "text" /\ a.text # <<>> THEN a.text ELSE b

\* assert(value) on a string: the empty string (like undefined) is falsy.
Truthy(path) == path # ""

\* fs.existsSync(path) in the file system of the request.
existsSync(path, files) == path \in files

\* The names both variants set themselves.
TelemetryNames == {"TRACEPARENT", "OTEL_RESOURCE_ATTRIBUTES", "OTEL_LOG_LEVEL"}

\* TRACEPARENT, OTEL_RESOURCE_ATTRIBUTES and OTEL_LOG_LEVEL as both variants
\* add them; carrier["traceparent"] may be undefined.
Telemetry(carrier) ==
    [k \in TelemetryNames |->
        CASE k = "TRACEPARENT" -> carrier
          [] k = "OTEL_RESOURCE_ATTRIBUTES" ->
                Text(<<"execution_environment=trigger,">>)
          [] k = "OTEL_LOG_LEVEL" -> Text(<<"DEBUG">>)]

\* options.payload: undefined, or an object with the one property note, a
\* string.
Payload(note) == [kind |-> "object", text |-> note]

\* JSON.stringify(options.payload)
JSONStringify(payload) ==
    <<"{", DQ, "note", DQ, ":", DQ>> \o payload.text \o <<DQ, "}">>

\* Mutant of buildEnvironmentVariables: the variables of the caller are
\* spread last.
buildEnvironmentVariables_CallerLast(options_env, payload, carrier) ==
    Spread(Spread(Telemetry(carrier),
                  IF payload.kind = "object"
                  THEN [k \in {"TRIGGER_PAYLOAD"} |->
                           Text(JSONStringify(payload))]
                  ELSE EmptyEnv),
           options_env)

\* {...options.env, TRACEPARENT, OTEL_RESOURCE_ATTRIBUTES, OTEL_LOG_LEVEL},
\* then envVars.TRIGGER_PAYLOAD when options.payload is given.
buildEnvironmentVariables(options_env, payload, carrier) ==
    Spread(Spread(options_env, Telemetry(carrier)),
           IF payload.kind = "object"
           THEN [k \in {"TRIGGER_PAYLOAD"} |-> Text(JSONStringify(payload))]
           ELSE EmptyEnv)

\* value.replace(/"/g, '\\"')
replace(value) ==
    [i \in DOMAIN value |-> IF value[i] = DQ THEN EscapedDQ ELSE value[i]]

\* The export statements: for every key whose value is not undefined the text
\* that stands between the double quotes of export KEY="...".
buildExportStatements(envVars) ==
    [k \in {n \in DOMAIN envVars : envVars[n].kind = "text"} |->
        Text(replace(envVars[k].text))]

\* What the shell takes a text between double quotes for: \" is a double
\* quote and $HOME the value of HOME.
RECURSIVE ShellDoubleQuoted(_, _)
ShellDoubleQuoted(text, env) ==
    IF text = <<>> THEN <<>>
    ELSE (CASE Head(text) = EscapedDQ -> <<DQ>>
            [] Head(text) = HomeRef   -> ValueOf(env, "HOME").text
            [] OTHER                  -> <<Head(text)>>)
         \o ShellDoubleQuoted(Tail(text), env)

\* The environment of the command the shell runs after the export
\* statements: the shell was spawned without an env option, so it starts
\* from process.env.
ShellEnvironment(exports, processEnv) ==
    [k \in DOMAIN exports \cup DOMAIN processEnv |->
        IF k \in DOMAIN exports
        THEN Text(ShellDoubleQuoted(exports[k].text, processEnv))
        ELSE processEnv[k]]

\* spawn(bin, args, {env}): Node passes the keys whose value is not
\* undefined.
SpawnEnvironment(env) ==
    [k \in {n \in DOMAIN env : env[n].kind = "text"} |-> env[k]]

\* An argument of a command is the sequence of its characters; a token that
\* is not one of the characters below stands for letters the shell leaves
\* alone.
SQ        == "'"
BSL       == "\\"
Space     == " "
Operators == {"|", ";", "&"}

\* arg.includes(" ") || arg.includes("&") || arg.includes(";") ||
\* arg.includes("$")
needsEscaping(arg) ==
    \E i \in DOMAIN arg : arg[i] \in {Space, "&", ";", HomeRef}

\* arg.replace(/'/g, "'\\''")
RECURSIVE replaceQuote(_)
replaceQuote(arg) ==
    IF arg = <<>> THEN <<>>
    ELSE (IF Head(arg) = SQ THEN <<SQ, BSL, SQ, SQ>> ELSE <<Head(arg)>>)
         \o replaceQuote(Tail(arg))

\* words.join(" ")
RECURSIVE JoinWords(_)
JoinWords(words) ==
    IF words = <<>> THEN <<>>
    ELSE IF Len(words) = 1 THEN words[1]
    ELSE words[1] \o <<Space>> \o JoinWords(Tail(words))

escapeShellArguments(args) ==
    JoinWords([i \in DOMAIN args |->
                  IF needsEscaping(args[i])
                  THEN <<SQ>> \o replaceQuote(args[i]) \o <<SQ>>
                  ELSE args[i]])

\* The last command of buildShellCommand: `${binPath} ${escapedArgs}`.
buildShellCommand(binPath, escapedArgs) == binPath \o <<Space>> \o escapedArgs

\* The shell reads a command line: between single quotes every character
\* stands for itself; outside them a space ends a word, a backslash makes
\* the next character stand for itself, $HOME is replaced by the value of
\* HOME, and |, ; and & end the command.  simple is TRUE when the whole
\* line was one command.
RECURSIVE ShellScan(_, _, _, _, _, _)
ShellScan(text, quoted, word, open, words, env) ==
    LET closed == IF open THEN Append(words, word) ELSE words
    IN  IF text = <<>>
        THEN [simple |-> ~quoted, words |-> closed]
        ELSE LET h == Head(text)
                 t == Tail(text)
             IN  IF quoted
                 THEN IF h = SQ
                      THEN ShellScan(t, FALSE, word, TRUE, words, env)
                      ELSE ShellScan(t, TRUE, Append(word, h), TRUE, words,
                                     env)
                 ELSE CASE h = Space ->
                             ShellScan(t, FALSE, <<>>, FALSE, closed, env)
                        [] h = SQ ->
                             ShellScan(t, TRUE, word, TRUE, words, env)
                        [] h = BSL ->
                             IF t = <<>>
                             THEN [simple |-> FALSE, words |-> closed]
                             ELSE ShellScan(Tail(t), FALSE,
                                            Append(word, Head(t)), TRUE,
                                            words, env)
                        [] h \in Operators ->
                             [simple |-> FALSE, words |-> closed]
                        [] h = HomeRef ->
                             ShellScan(t, FALSE,
                                       word \o ValueOf(env, "HOME").text,
                                       TRUE, words, env)
                        [] OTHER ->
                             ShellScan(t, FALSE, Append(word, h), TRUE,
                                       words, env)

ShellWords(text, env) == ShellScan(text, FALSE, <<>>, FALSE, <<>>, env)

\* What a call came to: whether a child was spawned, the command the child
\* runs and the arguments it receives, each one a sequence of characters,
\* whether the command line given to a shell was one command, and the
\* environment of the child.
NotLaunched == [status |-> "none", bin |-> <<>>, args |-> <<>>,
                simple |-> TRUE, env |-> EmptyEnv]

Refused == [status |-> "refused", bin |-> <<>>, args |-> <<>>,
            simple |-> TRUE, env |-> EmptyEnv]

\* The child of the object-parameter runRailsScript: the shell runs
\* bundle exec rails runner <scriptPath> <scriptArgs> after the export
\* statements.
LaunchRails(r) ==
    LET commandArgs == << <<"exec">>, <<"rails">>, <<"runner">>, <<r.path>> >>
                           \o r.scriptArgs
        command     == ShellWords(
                           buildShellCommand(<<"bundle">>,
                               escapeShellArguments(commandArgs)),
                           r.processEnv)
    IN  [status |-> "spawned",
         bin    |-> Head(command.words),
         args   |-> Tail(command.words),
         simple |-> command.simple,
         env    |-> ShellEnvironment(
                        buildExportStatements(
                            buildEnvironmentVariables(r.env, r.payload,
                                                      r.traceparent)),
                        r.processEnv)]

\* The child of _executeRubyCommand(traceName, commandArgs, binPath, ...):
\* spawn(binPath, commandArgs, {env}) runs no shell.
LaunchExec(r, binPath, commandArgs) ==
    [status |-> "spawned",
     bin    |-> binPath,
     args   |-> commandArgs,
     simple |-> TRUE,
     env    |-> SpawnEnvironment(
                    Spread(Spread(r.processEnv, r.env),
                           Telemetry(r.traceparent)))]

\* The error an assert of a run operation throws inside the async function:
\* the promise it returned is rejected.
AssertionError(message) ==
    [status |-> "rejected", reason |-> "assert", exitCode |-> 0,
     stdout |-> <<>>, stderr |-> <<>>, message |-> message]

\* The requests of the model: the operation, its scriptPath and scriptArgs,
\* the files that exist, options.env, options.payload, process.env and
\* carrier["traceparent"].
Paths == {"", "missing.rb", scriptPath}

FileSets == { {scriptPath}, {scriptPath, "bin/rails"} }

CallerEnvs ==
    { EmptyEnv,
      [k \in {"GREETING"} |-> Text(<<"hello">>)],
      [k \in {"GREETING"} |-> Undefined],
      [k \in {"GREETING"} |-> Text(<<"a", HomeRef>>)],
      [k \in {"GREETING"} |-> Text(<<"say ", DQ, "hi", DQ>>)],
      [k \in {"OTEL_LOG_LEVEL"} |-> Text(<<"INFO">>)],
      [k \in {"TRACEPARENT"} |-> Text(<<"00-caller">>)] }

ScriptArgs ==
    { <<>>,
      << <<"--limit">>, <<"100">> >>,
      << <<"two", Space, "words">> >>,
      << <<"a", HomeRef>> >>,
      << <<"it", SQ, "s", Space, "ok">> >>,
      << <<"it", SQ, "s">> >>,
      << <<"a", "|", "b">> >>,
      << <<>>, <<"last">> >> }

Payloads == { Undefined, Payload(<<"plain">>), Payload(<<"cost ", HomeRef>>) }

ProcessEnvs ==
    { Only([k \in {"HOME", "RUBY_BIN_PATH", "RAILS_BIN_PATH", "GREETING"} |->
               CASE k = "HOME" -> Text(<<"/root">>)
                 [] k = "RUBY_BIN_PATH" -> ruby
                 [] k = "RAILS_BIN_PATH" -> rails
                 [] k = "GREETING" -> greeting]) :
        ruby \in {Unset, Text(<<"/opt/ruby">>)},
        rails \in {Unset, Text(<<"/opt/rails">>)},
        greeting \in {Unset, Text(<<"inherited">>)} }

Requests ==
    [op : {"runScript", "runRailsScript"}, path : Paths,
     scriptArgs : ScriptArgs, files : FileSets,
     env : CallerEnvs, payload : Payloads, processEnv : ProcessEnvs,
     traceparent : {Undefined, Text(<<"00-trace">>)}]

\* The request of the invocations that start after the spawn.
DefaultRequest ==
    [op |-> "runRailsScript", path |-> scriptPath, scriptArgs |-> <<>>,
     files |-> {scriptPath}, env |-> EmptyEnv, payload |-> Undefined,
     processEnv |-> [k \in {"HOME"} |-> Text(<<"/root">>)],
     traceparent |-> Undefined]

\* runScript(scriptPath, scriptArgs, options)
runScript ==
    /\ variant = "exec" /\ request.op = "runScript"
    /\ launch.status = "none"
    /\ IF ~Truthy(request.path)
       THEN /\ launch' = Refused
            /\ outcome' = Settle(outcome,
                              AssertionError(<<"Script path is required">>))
            /\ UNCHANGED childState
       ELSE IF ~existsSync(request.path, request.files)
       THEN /\ launch' = Refused
            /\ outcome' = Settle(outcome,
                              AssertionError(<<"Script does not exist: ",
                                               request.path>>))
            /\ UNCHANGED childState
       ELSE /\ launch' = LaunchExec(request,
                             OrElse(ValueOf(request.processEnv, "RUBY_BIN_PATH"),
                                    <<"ruby">>),
                             << <<request.path>> >> \o request.scriptArgs)
            /\ childState' = "spawning"
            /\ UNCHANGED outcome
    /\ UNCHANGED <<variant, build, client, procs, runs, request, blockedOn, emitted, written, partial,
                   stdoutPipe, stderrPipe, stdinBuf, stdinDestroyed,
                   stdoutLines, stderrChunks, promises, eventChain, closePc,
                   closeCode, awaited, ackLog, callLog>>

\* runRailsScript(scriptPath, scriptArgs, options)
runRailsScriptPositional ==
    /\ variant = "exec" /\ request.op = "runRailsScript"
    /\ launch.status = "none"
    /\ IF ~Truthy(request.path)
       THEN /\ launch' = Refused
            /\ outcome' = Settle(outcome,
                              AssertionError(<<"Script path is required">>))
            /\ UNCHANGED childState
       ELSE IF ~existsSync(request.path, request.files)
       THEN /\ launch' = Refused
            /\ outcome' = Settle(outcome,
                              AssertionError(<<"Script does not exist: ",
                                               request.path>>))
            /\ UNCHANGED childState
       ELSE /\ launch' = LaunchExec(request,
                             OrElse(ValueOf(request.processEnv, "RAILS_BIN_PATH"),
                                    IF existsSync("bin/rails", request.files)
                                    THEN <<"bin/rails">> ELSE <<"rails">>),
                             << <<"runner">>, <<request.path>> >>
                                 \o request.scriptArgs)
            /\ childState' = "spawning"
            /\ UNCHANGED outcome
    /\ UNCHANGED <<variant, build, client, procs, runs, request, blockedOn, emitted, written, partial,
                   stdoutPipe, stderrPipe, stdinBuf, stdinDestroyed,
                   stdoutLines, stderrChunks, promises, eventChain, closePc,
                   closeCode, awaited, ackLog, callLog>>

\* runRailsScript({scriptArgs, scriptPath, options})
runRailsScript ==
    /\ variant = "rails" /\ request.op = "runRailsScript"
    /\ launch.status = "none"
    /\ IF ~Truthy(request.path)
       THEN /\ launch' = Refused
            /\ outcome' = Settle(outcome,
                              AssertionError(<<"Script path is required">>))
            /\ UNCHANGED childState
       ELSE /\ launch' = LaunchRails(request)
            /\ childState' = "spawning"
            /\ UNCHANGED outcome
    /\ UNCHANGED <<variant, build, client, procs, runs, request, blockedOn, emitted, written, partial,
                   stdoutPipe, stderrPipe, stdinBuf, stdinDestroyed,
                   stdoutLines, stderrChunks, promises, eventChain, closePc,
                   closeCode, awaited, ackLog, callLog>>

---------------------------------------------------------------------------
(* The build extension *)

\* context.target
Targets == {"dev", "deploy"}

\* RubyOptions: devRubyBinaryPath, rubyVersion and scripts, each one given
\* or undefined; the empty text is the string "".
RubyOptions ==
    [devRubyBinaryPath : {Undefined, Text(<<>>), Text(<<"/opt/dev/ruby">>)},
     rubyVersion       : {Undefined, Text(<<"3.2">>)},
     scripts           : {Undefined, Text(<<"scripts/*.rb">>)}]

\* No build has completed.
NotBuilt ==
    [target |-> "none",
     options |-> [devRubyBinaryPath |-> Undefined, rubyVersion |-> Undefined,
                  scripts |-> Undefined],
     files |-> <<>>, layers |-> <<>>]

\* Mutant of DevRubyBinary: the option is not looked at.
DevRubyBinary_Default(options) == <<"/usr/bin/ruby">>

\* if (this.options.devRubyBinaryPath) ... else "/usr/bin/ruby"
DevRubyBinary(options) == OrElse(options.devRubyBinaryPath, <<"/usr/bin/ruby">>)

\* this.options.rubyVersion ? `ruby${this.options.rubyVersion}` : "ruby"
rubyPackage(options) == <<"ruby">> \o OrElse(options.rubyVersion, <<>>)

\* The layer context.addLayer is called with.
RubyInstallation(options) ==
    [id |-> "ruby-installation",
     package |-> rubyPackage(options),
     env |-> [k \in {"RUBY_BIN_PATH"} |-> Text(<<"/usr/bin/ruby">>)],
     override |-> TRUE]

\* async onBuildComplete(context, manifest)
onBuildComplete(target, options) ==
    /\ build.target = "none"
    /\ IF target = "dev"
       THEN /\ request' =
                   [request EXCEPT !.processEnv =
                       Spread(@, [k \in {"RUBY_BIN_PATH"} |->
                                     Text(DevRubyBinary(options))])]
            /\ build' = [target |-> target, options |-> options,
                         files |-> OrElse(options.scripts, <<>>),
                         layers |-> <<>>]
       ELSE /\ build' = [target |-> target, options |-> options,
                         files |-> OrElse(options.scripts, <<>>),
                         layers |-> <<RubyInstallation(options)>>]
            /\ UNCHANGED request
    /\ UNCHANGED <<variant, client, procs, runs, launch, stdoutPipe,
                   stderrPipe, stdinDestroyed>>
    /\ UNCHANGED childVars
    /\ UNCHANGED hostVars

---------------------------------------------------------------------------
(* The API client of the Ruby helper *)

\* nil
Nil == [kind |-> "nil", text |-> <<>>]

DefaultApiUrl == <<"https://api.trigger.dev">>

\* a || b in Ruby: only nil (and false) are falsy.
RubyOr(a, b) == IF a.kind = "text" THEN a ELSE b

\* ENV[name]
ENVFetch(env, name) ==
    IF ValueOf(env, name).kind = "text" THEN ValueOf(env, name) ELSE Nil

\* The helper when the script starts, in its two forms: the class, whose
\* shared instance does not exist yet, and the module, whose variables
\* are @api_key = nil and @api_url = "https://api.trigger.dev".  given_key
\* and given_url are the arguments of the last configure or new.
NewClient(form, env) ==
    [form |-> form, env |-> env, made |-> form = "module",
     api_key |-> Nil,
     api_url |-> IF form = "module" THEN Text(DefaultApiUrl) ELSE Nil,
     given_key |-> Nil, given_url |-> Nil,
     triggers |-> 0, posts |-> <<>>, raised |-> "none"]

\* @api_key = api_key || ENV["TRIGGER_API_KEY"]
\* @api_url = api_url || ENV["TRIGGER_API_URL"] || "https://api.trigger.dev"
initialize(c, api_key, api_url) ==
    [c EXCEPT !.made = TRUE,
              !.api_key = RubyOr(api_key, ENVFetch(c.env, "TRIGGER_API_KEY")),
              !.api_url = RubyOr(api_url,
                                 RubyOr(ENVFetch(c.env, "TRIGGER_API_URL"),
                                        Text(DefaultApiUrl)))]

\* @instance ||= new(skip_validation: true)
instance(c) == IF c.made THEN c ELSE initialize(c, Nil, Nil)

\* TriggerDev.configure(api_key: ..., api_url: ...)
configure(api_key, api_url) ==
    /\ client' = [initialize(client, api_key, api_url) EXCEPT
                      !.given_key = api_key, !.given_url = api_url,
                      !.raised = "none"]
    /\ UNCHANGED <<variant, build, procs, runs, request, launch, stdoutPipe,
                   stderrPipe, stdinDestroyed>>
    /\ UNCHANGED childVars
    /\ UNCHANGED hostVars

\* TriggerDev.new(api_key: ..., api_url: ...): without an API key
\* initialize raises and no object is made.
TriggerDevNew(api_key, api_url) ==
    /\ client.form = "class"
    /\ IF initialize(client, api_key, api_url).api_key = Nil
       THEN client' = [client EXCEPT !.raised = "ValidationInvalid"]
       ELSE client' = [initialize(client, api_key, api_url) EXCEPT
                           !.given_key = api_key, !.given_url = api_url,
                           !.raised = "none"]
    /\ UNCHANGED <<variant, build, procs, runs, request, launch, stdoutPipe,
                   stderrPipe, stdinDestroyed>>
    /\ UNCHANGED childVars
    /\ UNCHANGED hostVars

\* The API key and the API URL trigger works with: the class reads its
\* instance variables, the module puts ENV and the default behind them.
KeyAtTrigger(c) ==
    IF c.form = "class" THEN c.api_key
    ELSE RubyOr(c.api_key, ENVFetch(c.env, "TRIGGER_API_KEY"))

UrlAtTrigger(c) ==
    IF c.form = "class" THEN c.api_url
    ELSE RubyOr(c.api_url, RubyOr(ENVFetch(c.env, "TRIGGER_API_URL"),
                                  Text(DefaultApiUrl)))

\* Mutant of trigger: the request is sent without looking at the API key.
trigger_NoKeyCheck ==
    /\ client.triggers < MaxTriggers
    /\ LET me == instance(client)
       IN  client' = [me EXCEPT
                         !.triggers = @ + 1,
                         !.raised = "none",
                         !.posts = Append(@, [url |-> UrlAtTrigger(me).text,
                                              key |-> KeyAtTrigger(me).text])]
    /\ UNCHANGED <<variant, build, procs, runs, request, launch, stdoutPipe,
                   stderrPipe, stdinDestroyed>>
    /\ UNCHANGED childVars
    /\ UNCHANGED hostVars

\* trigger(task_id, payload, **options) up to HTTParty.post: the
\* configuration error when there is no API key, else the request to
\* "#{api_url}/api/v1/tasks/#{task_id}/trigger" with the key as bearer.
trigger ==
    /\ client.triggers < MaxTriggers
    /\ LET me == instance(client)
       IN  IF KeyAtTrigger(me) = Nil
           THEN client' = [me EXCEPT !.triggers = @ + 1,
                                     !.raised = "ConfigurationError"]
           ELSE client' = [me EXCEPT
                              !.triggers = @ + 1,
                              !.raised = "none",
                              !.posts = Append(@,
                                            [url |-> UrlAtTrigger(me).text,
                                             key |-> KeyAtTrigger(me).text])]
    /\ UNCHANGED <<variant, build, procs, runs, request, launch, stdoutPipe,
                   stderrPipe, stdinDestroyed>>
    /\ UNCHANGED childVars
    /\ UNCHANGED hostVars

\* ENV of the Ruby process, and the arguments configure and new are called
\* with.
HelperEnvs ==
    { Only([k \in {"TRIGGER_API_KEY", "TRIGGER_API_URL"} |->
               IF k = "TRIGGER_API_KEY" THEN key ELSE url]) :
        key \in {Unset, Text(<<"tr_env">>)},
        url \in {Unset, Text(<<"https://env.example">>)} }

KeyArguments == {Nil, Text(<<"tr_arg">>)}

UrlArguments == {Nil, Text(<<"https://arg.example">>)}


\* The calls of the run operations: no child exists yet.
InitLaunch ==
    /\ variant \in {"rails", "exec"}
    /\ request \in Requests
    /\ variant = "rails" => request.op = "runRailsScript"
    /\ build = NotBuilt
    /\ client = NewClient("class", EmptyEnv)
    /\ launch = NotLaunched
    /\ childState = "unborn"
    /\ blockedOn = 0
    /\ emitted = 0
    /\ written = <<>>
    /\ partial = <<>>
    /\ stderrPipe = <<>>
    /\ stderrChunks = <<>>
    /\ stdoutPipe = <<>>
    /\ stdinBuf = 0
    /\ stdinDestroyed = FALSE
    /\ stdoutLines = <<>>
    /\ promises = <<>>
    /\ eventChain = 0
    /\ closePc = "idle"
    /\ closeCode = <<>>
    /\ awaited = 0
    /\ outcome = Pending
    /\ ackLog = <<>>
    /\ callLog = <<>>
    /\ procs = [i \in Runs |->
                  [state |-> "running", written |-> <<>>, stdoutPipe |-> <<>>,
                   stdin |-> 0, acks |-> 0]]
    /\ runs = [i \in Runs |->
                 [stdoutLines |-> <<>>, eventChain |-> <<>>,
                  outcome |-> "pending"]]

NextLaunch ==
    \/ runScript
    \/ runRailsScriptPositional
    \/ runRailsScript

SpecLaunch == InitLaunch /\ [][NextLaunch]_vars

\* A build that completes before or after a call of runScript.
InitBuild ==
    /\ InitLaunch
    /\ variant = "exec" /\ request.op = "runScript"
    /\ request.scriptArgs = <<>> /\ request.env = EmptyEnv
    /\ request.payload = Undefined /\ request.traceparent = Undefined

NextBuild ==
    \/ \E target \in Targets, options \in RubyOptions :
           onBuildComplete(target, options)
    \/ runScript

SpecBuild == InitBuild /\ [][NextBuild]_vars

\* A script that calls configure, new and trigger of the helper, in any
\* order.
InitClient ==
    /\ variant = "rails"
    /\ request = DefaultRequest
    /\ build = NotBuilt
    /\ client \in {NewClient(form, env) :
                      form \in {"class", "module"}, env \in HelperEnvs}
    /\ launch = LaunchRails(request)
    /\ childState = "running"
    /\ blockedOn = 0
    /\ emitted = 0
    /\ written = <<>>
    /\ partial = <<>>
    /\ stderrPipe = <<>>
    /\ stderrChunks = <<>>
    /\ stdoutPipe = <<>>
    /\ stdinBuf = 0
    /\ stdinDestroyed = FALSE
    /\ stdoutLines = <<>>
    /\ promises = <<>>
    /\ eventChain = 0
    /\ closePc = "idle"
    /\ closeCode = <<>>
    /\ awaited = 0
    /\ outcome = Pending
    /\ ackLog = <<>>
    /\ callLog = <<>>
    /\ procs = [i \in Runs |->
                  [state |-> "running", written |-> <<>>, stdoutPipe |-> <<>>,
                   stdin |-> 0, acks |-> 0]]
    /\ runs = [i \in Runs |->
                 [stdoutLines |-> <<>>, eventChain |-> <<>>,
                  outcome |-> "pending"]]

NextClient ==
    \/ \E api_key \in KeyArguments, api_url \in UrlArguments :
           configure(api_key, api_url)
    \/ \E api_key \in KeyArguments, api_url \in UrlArguments :
           TriggerDevNew(api_key, api_url)
    \/ trigger

SpecClient == InitClient /\ [][NextClient]_vars

---------------------------------------------------------------------------
(* Initial state: spawn() has returned and the callbacks are registered *)

Init ==
    /\ variant \in {"rails", "exec"}
    /\ request = DefaultRequest
    /\ build = NotBuilt
    /\ client = NewClient("class", EmptyEnv)
    /\ launch = IF variant = "rails"
                THEN LaunchRails(request)
                ELSE LaunchExec(request, <<"rails">>,
                                << <<"runner">>, <<request.path>> >>)
    /\ childState = "spawning"
    /\ blockedOn = 0
    /\ emitted = 0
    /\ written = <<>>
    /\ partial = <<>>
    /\ stderrPipe = <<>>
    /\ stderrChunks = <<>>
    /\ stdoutPipe = <<>>
    /\ stdinBuf = 0
    /\ stdinDestroyed = FALSE
    /\ stdoutLines = <<>>
    /\ promises = <<>>
    /\ eventChain = 0
    /\ closePc = "idle"
    /\ closeCode = <<>>
    /\ awaited = 0
    /\ outcome = Pending
    /\ ackLog = <<>>
    /\ callLog = <<>>
    /\ procs = [i \in Runs |->
                  [state |-> "running", written |-> <<>>, stdoutPipe |-> <<>>,
                   stdin |-> 0, acks |-> 0]]
    /\ runs = [i \in Runs |->
                 [stdoutLines |-> <<>>, eventChain |-> <<>>,
                  outcome |-> "pending"]]

---------------------------------------------------------------------------
(* The child process *)

\* The shell or binary was found and the script starts to run.
SpawnOk ==
    /\ childState = "spawning"
    /\ childState' = "running"
    /\ UNCHANGED <<variant, build, client, procs, runs, request, launch, blockedOn, emitted, written, partial, stdoutPipe, stderrPipe, stdinBuf,
                   stdinDestroyed>>
    /\ UNCHANGED hostVars

\* Mutant of SpawnError: 'error' does not reject the returned promise.
SpawnError_NoReject ==
    /\ childState = "spawning"
    /\ childState' = "failed"
    /\ stdinDestroyed' = TRUE
    /\ UNCHANGED <<variant, build, client, procs, runs, request, launch, blockedOn, emitted, written, partial, stdoutPipe,
                   stderrPipe, stdinBuf, stdoutLines, stderrChunks, promises,
                   eventChain, closePc, closeCode, awaited, outcome, ackLog,
                   callLog>>

\* Spawn failure: Node destroys proc.stdin and emits 'error' (the callback
\* is reject); 'close' follows with the negative errno as code.
SpawnError ==
    /\ childState = "spawning"
    /\ childState' = "failed"
    /\ stdinDestroyed' = TRUE
    /\ outcome' = Settle(outcome, [status |-> "rejected", reason |-> "spawn",
                                   exitCode |-> 0, stdout |-> <<>>,
                                   stderr |-> <<>>,
                                   message |-> <<"spawn ENOENT">>])
    /\ UNCHANGED <<variant, build, client, procs, runs, request, launch, blockedOn, emitted, written, partial, stdoutPipe, stderrPipe, stdinBuf, stdoutLines, stderrChunks,
                   promises, eventChain, closePc, closeCode, awaited, ackLog,
                   callLog>>

\* puts of a line that does not come from the helper.
ChildPuts(text) ==
    /\ childState = "running"
    /\ emitted < MaxLines
    /\ emitted' = emitted + 1
    /\ written' = Append(written, partial \o text)
    /\ stdoutPipe' = Append(stdoutPipe, partial \o text)
    /\ partial' = <<>>
    /\ UNCHANGED <<variant, build, client, procs, runs, request, launch, childState, blockedOn, stderrPipe, stdinBuf,
                   stdinDestroyed>>
    /\ UNCHANGED hostVars

\* Mutant of emit_event: the line stays in the buffer of $stdout when the
\* read on stdin begins.
emit_event_NoFlush(m) ==
    /\ childState = "running"
    /\ emitted < MaxLines
    /\ emitted' = emitted + 1
    /\ IF WaitForAck(m)
       THEN /\ partial' = partial \o <<EVENT_PREFIX, MethodJson(m)>>
            /\ childState' = "blocked" /\ blockedOn' = emitted + 1
            /\ UNCHANGED <<written, stdoutPipe>>
       ELSE /\ written' =
                   Append(written, partial \o <<EVENT_PREFIX, MethodJson(m)>>)
            /\ stdoutPipe' =
                   Append(stdoutPipe,
                          partial \o <<EVENT_PREFIX, MethodJson(m)>>)
            /\ partial' = <<>>
            /\ UNCHANGED <<childState, blockedOn>>
    /\ UNCHANGED <<variant, build, client, procs, runs, request, launch, stderrPipe, stdinBuf, stdinDestroyed>>
    /\ UNCHANGED hostVars

\* A public method m of the helper: emit_event writes the event line,
\* flushes, and reads a line from stdin when wait_for_ack is true.
emit_event(m) ==
    /\ childState = "running"
    /\ emitted < MaxLines
    /\ emitted' = emitted + 1
    /\ written' = Append(written, partial \o <<EVENT_PREFIX, MethodJson(m)>>)
    /\ stdoutPipe' =
           Append(stdoutPipe, partial \o <<EVENT_PREFIX, MethodJson(m)>>)
    /\ partial' = <<>>
    /\ IF WaitForAck(m)
       THEN childState' = "blocked" /\ blockedOn' = emitted + 1
       ELSE UNCHANGED <<childState, blockedOn>>
    /\ UNCHANGED <<variant, build, client, procs, runs, request, launch, stderrPipe, stdinBuf, stdinDestroyed>>
    /\ UNCHANGED hostVars

\* A public method of the helper called with arguments: emit_event writes
\* the line of the event hash after what the script has printed, flushes,
\* and reads a line from stdin when wait_for_ack is true.
HelperCall(c) ==
    /\ childState = "running"
    /\ emitted < MaxCalls
    /\ emitted' = emitted + 1
    /\ written' = Append(written, partial \o EventLine(c))
    /\ stdoutPipe' = Append(stdoutPipe, partial \o EventLine(c))
    /\ partial' = <<>>
    /\ IF WaitForAck(c.m)
       THEN childState' = "blocked" /\ blockedOn' = emitted + 1
       ELSE UNCHANGED <<childState, blockedOn>>
    /\ UNCHANGED <<variant, build, client, procs, runs, request, launch, stderrPipe,
                   stdinBuf, stdinDestroyed>>
    /\ UNCHANGED hostVars

\* print, $stdout.write: text without a newline at its end.
ChildPrint(text) ==
    /\ childState = "running"
    /\ Len(partial) < MaxPrints
    /\ partial' = partial \o text
    /\ UNCHANGED <<variant, build, client, procs, runs, request, launch, childState,
                   blockedOn, emitted, written, stdoutPipe, stderrPipe,
                   stdinBuf, stdinDestroyed>>
    /\ UNCHANGED hostVars

\* The script writes to stderr ($stderr.puts, warn, an uncaught exception).
ChildWarn(chunk) ==
    /\ childState = "running"
    /\ Len(stderrChunks) + Len(stderrPipe) < MaxChunks
    /\ stderrPipe' = Append(stderrPipe, chunk)
    /\ UNCHANGED <<variant, build, client, procs, runs, request, launch, stdoutPipe, stdinDestroyed>>
    /\ UNCHANGED childVars
    /\ UNCHANGED hostVars

\* $stdin.gets returns: one line of stdin is consumed, whatever it is.
ChildGets ==
    /\ childState = "blocked"
    /\ stdinBuf > 0
    /\ stdinBuf' = stdinBuf - 1
    /\ childState' = "running"
    /\ blockedOn' = 0
    /\ UNCHANGED <<variant, build, client, procs, runs, request, launch, emitted, written, partial, stdoutPipe, stderrPipe, stdinDestroyed>>
    /\ UNCHANGED hostVars

\* The script ends by itself: Ruby flushes $stdout, and what was written
\* after the last newline reaches the host as one more line.
ChildExit ==
    /\ childState = "running"
    /\ childState' = "exited"
    /\ IF partial = <<>>
       THEN UNCHANGED <<emitted, written, stdoutPipe>>
       ELSE /\ emitted' = emitted + 1
            /\ written' = Append(written, partial)
            /\ stdoutPipe' = Append(stdoutPipe, partial)
    /\ partial' = <<>>
    /\ UNCHANGED <<variant, build, client, procs, runs, request, launch, blockedOn,
                   stderrPipe, stdinBuf, stdinDestroyed>>
    /\ UNCHANGED hostVars

\* The child is terminated by a signal, running or blocked on stdin; what
\* print left in the buffer of $stdout is lost.
ChildKilled ==
    /\ childState \in {"running", "blocked"}
    /\ childState' = "killed"
    /\ blockedOn' = 0
    /\ partial' = <<>>
    /\ UNCHANGED <<variant, build, client, procs, runs, request, launch, emitted, written,
                   stdoutPipe, stderrPipe, stdinBuf, stdinDestroyed>>
    /\ UNCHANGED hostVars

---------------------------------------------------------------------------
(* The host: notifications of the child process *)

\* Node learns of the exit of the child: proc.stdin is destroyed.
ProcExit ==
    /\ childState \in {"exited", "killed"}
    /\ ~stdinDestroyed
    /\ stdinDestroyed' = TRUE
    /\ UNCHANGED <<variant, build, client, procs, runs, request, launch, stdoutPipe, stderrPipe>>
    /\ UNCHANGED childVars
    /\ UNCHANGED hostVars

\* proc.stderr.on("data"): the chunk is pushed on stderrChunks.
OnStderrData ==
    /\ stderrPipe # <<>>
    /\ stderrChunks' = Append(stderrChunks, Head(stderrPipe))
    /\ stderrPipe' = Tail(stderrPipe)
    /\ UNCHANGED <<variant, build, client, procs, runs, request, launch, stdoutPipe, stdinDestroyed,
                   stdoutLines, promises,
                   eventChain, closePc, closeCode, awaited, outcome, ackLog,
                   callLog>>
    /\ UNCHANGED childVars

\* The stream position of the line at the head of the pipe.
HeadPos == emitted - Len(stdoutPipe) + 1

NewHandler(event) ==
    [kind |-> "handler", pred |-> eventChain, n |-> HeadPos, event |-> event,
     status |-> "pending"]

NewWrap(pred) ==
    [kind |-> "wrap", pred |-> pred, n |-> HeadPos, event |-> Obj(""),
     status |-> "pending"]

\* Mutant of processEventLine: a line without the prefix is not pushed.
processEventLine_DropPlain(line) ==
    IF ~startsWith(line, TRIGGER_EVENT_PREFIX)
    THEN [out |-> <<>>, made |-> <<>>, chain |-> eventChain]
    ELSE LET r == JSONParse(slice(line))
         IN  IF r.ok
             THEN [out |-> <<>>, made |-> <<NewHandler(r.value)>>,
                   chain |-> Len(promises) + 1]
             ELSE [out |-> <<line>>, made |-> <<>>, chain |-> eventChain]

\* Mutant of processEventLine: an event line is pushed on the output too.
processEventLine_EchoEvent(line) ==
    IF ~startsWith(line, TRIGGER_EVENT_PREFIX)
    THEN [out |-> <<line>>, made |-> <<>>, chain |-> eventChain]
    ELSE LET r == JSONParse(slice(line))
         IN  IF r.ok
             THEN [out |-> <<line>>, made |-> <<NewHandler(r.value)>>,
                   chain |-> Len(promises) + 1]
             ELSE [out |-> <<line>>, made |-> <<>>, chain |-> eventChain]

\* async function processEventLine(line, stdoutLines, eventChain, proc):
\* the lines it appends to stdoutLines and the promises it creates; the
\* promise it returns is the last one.
processEventLine(line) ==
    IF ~startsWith(line, TRIGGER_EVENT_PREFIX)
    THEN [out |-> <<line>>, made |-> <<>>, chain |-> eventChain]
    ELSE LET r == JSONParse(slice(line))
         IN  IF r.ok
             THEN [out |-> <<>>, made |-> <<NewHandler(r.value)>>,
                   chain |-> Len(promises) + 1]
             ELSE [out |-> <<line>>, made |-> <<>>, chain |-> eventChain]

\* Mutant of OnLineRails: the line handler awaits the chain before it
\* takes the line.
OnLineRails_AwaitChain ==
    /\ variant = "rails"
    /\ stdoutPipe # <<>>
    /\ Settled(eventChain)
    /\ LET r == processEventLine(Head(stdoutPipe))
       IN  /\ stdoutLines' = stdoutLines \o r.out
           /\ promises' = promises \o r.made \o <<NewWrap(r.chain)>>
           /\ eventChain' = Len(promises')
    /\ stdoutPipe' = Tail(stdoutPipe)
    /\ UNCHANGED <<variant, build, client, procs, runs, request, launch, stderrPipe, stdinDestroyed, stderrChunks, closePc,
                   closeCode, awaited, outcome, ackLog, callLog>>
    /\ UNCHANGED childVars

\* rl.on("line") of runRailsScript:
\* eventChain = processEventLine(...).then((chain) => chain)
OnLineRails ==
    /\ variant = "rails"
    /\ stdoutPipe # <<>>
    /\ LET r == processEventLine(Head(stdoutPipe))
       IN  /\ stdoutLines' = stdoutLines \o r.out
           /\ promises' = promises \o r.made \o <<NewWrap(r.chain)>>
           /\ eventChain' = Len(promises')
    /\ stdoutPipe' = Tail(stdoutPipe)
    /\ UNCHANGED <<variant, build, client, procs, runs, request, launch, stderrPipe, stdinDestroyed, stderrChunks, closePc,
                   closeCode, awaited, outcome, ackLog, callLog>>
    /\ UNCHANGED childVars

\* rl.on("line") of _executeRubyCommand.
OnLineExec ==
    /\ variant = "exec"
    /\ stdoutPipe # <<>>
    /\ LET line == Head(stdoutPipe)
       IN  IF startsWith(line, TRIGGER_EVENT_PREFIX)
           THEN LET r == JSONParse(slice(line))
                IN  IF r.ok
                    THEN /\ promises' = Append(promises, NewHandler(r.value))
                         /\ eventChain' = Len(promises')
                         /\ UNCHANGED stdoutLines
                    ELSE /\ stdoutLines' = Append(stdoutLines, line)
                         /\ UNCHANGED <<promises, eventChain>>
           ELSE /\ stdoutLines' = Append(stdoutLines, line)
                /\ UNCHANGED <<promises, eventChain>>
    /\ stdoutPipe' = Tail(stdoutPipe)
    /\ UNCHANGED <<variant, build, client, procs, runs, request, launch, stderrPipe, stdinDestroyed, stderrChunks, closePc,
                   closeCode, awaited, outcome, ackLog, callLog>>
    /\ UNCHANGED childVars

---------------------------------------------------------------------------
(* The host: the event handlers on the chain *)

\* The end of the body of handler p, the host operation having succeeded
\* (ok) or thrown: the catch block calls logger.error; the acknowledgment is
\* written when called for and proc.stdin is not destroyed; the promise of
\* the handler settles.  calls is the call log up to the host operation.
Finish(p, ok, calls) ==
    /\ promises' = [promises EXCEPT ![p].status = HandlerStatus(ok)]
    /\ callLog' = IF ok THEN calls
                  ELSE Append(calls, [p |-> p, n |-> promises[p].n,
                                      op |-> "logger.error",
                                      args |-> NoArguments])
    /\ IF AckWanted(promises[p].event, ok) /\ sendAcknowledgment(stdinDestroyed)
       THEN /\ stdinBuf' = stdinBuf + 1
            /\ ackLog' = Append(ackLog, p)
       ELSE UNCHANGED <<stdinBuf, ackLog>>

\* The callback of handler p starts: handleTriggerEvent invokes the host
\* operation.  An awaited operation stays in flight; a synchronous one
\* returns or throws (ok) at once and the body ends in the same turn.  With
\* no operation to invoke the body ends at once, by a throw when reading
\* event.type throws.
HandlerStart(p, ok) ==
    /\ p \in DOMAIN promises
    /\ ReadyToRun(p)
    /\ LET h == handleTriggerEvent(promises[p].event)
           calls == IF h.op = "none" THEN callLog
                    ELSE Append(callLog, [p |-> p, n |-> promises[p].n,
                                          op |-> h.op, args |-> h.args])
       IN  /\ (h.async \/ h.op = "none") => (ok = ~h.throws)
           /\ IF h.async
              THEN /\ promises' = [promises EXCEPT ![p].status = "running"]
                   /\ callLog' = calls
                   /\ UNCHANGED <<stdinBuf, ackLog>>
              ELSE Finish(p, ok, calls)
    /\ UNCHANGED <<variant, build, client, procs, runs, request, launch, childState, blockedOn, emitted, written, partial, stdoutPipe, stderrPipe,
                   stdinDestroyed, stdoutLines, stderrChunks, eventChain, closePc, closeCode,
                   awaited, outcome>>

\* The awaited host operation of handler p settles, fulfilled (ok) or
\* rejected, and the body of the handler runs to its end.
HandlerSettle(p, ok) ==
    /\ p \in DOMAIN promises
    /\ promises[p].kind = "handler"
    /\ promises[p].status = "running"
    /\ Finish(p, ok, callLog)
    /\ UNCHANGED <<variant, build, client, procs, runs, request, launch, childState, blockedOn, emitted, written, partial, stdoutPipe, stderrPipe,
                   stdinDestroyed, stdoutLines, stderrChunks, eventChain, closePc, closeCode,
                   awaited, outcome>>

---------------------------------------------------------------------------
(* The host: close *)

\* Mutant of ChainAtClose: the callback awaits the chain as it was before
\* the last promise was chained on it.
ChainAtClose_Stale == IF eventChain = 0 THEN eventChain ELSE promises[eventChain].pred

\* The eventChain the 'close' callback reads when it starts.
ChainAtClose == eventChain

\* The code 'close' reports: the exit status of a child that exited by
\* itself, null for one killed by a signal, the negative errno of a failed
\* spawn.
CloseCodes ==
    CASE childState = "exited" -> {<<c>> : c \in ExitCodes}
      [] childState = "killed" -> {<<>>}
      [] childState = "failed" -> {<<-2>>}
      [] OTHER -> {}

\* 'close' is emitted once the child has ended (or failed to spawn) and its
\* stdio streams are closed, so after the last line.  The callback starts
\* with the code and stops at await eventChain.
ProcClose(code) ==
    /\ closePc = "idle"
    /\ stdinDestroyed
    /\ stdoutPipe = <<>>
    /\ stderrPipe = <<>>
    /\ code \in CloseCodes
    /\ closePc' = "awaiting"
    /\ closeCode' = code
    /\ awaited' = ChainAtClose
    /\ UNCHANGED <<variant, build, client, procs, runs, request, launch, stdoutPipe, stderrPipe, stdinDestroyed, stdoutLines, stderrChunks, promises,
                   eventChain, outcome, ackLog, callLog>>
    /\ UNCHANGED childVars

\* What the 'close' callback settles the returned promise with after
\* await eventChain (handleProcessClose, and the inline close handler of
\* _executeRubyCommand).
handleProcessClose(code, chainStatus) ==
    LET exitCode == Coalesce(code)
        stdout   == Join(stdoutLines)
        stderr   == Concat(stderrChunks)
        reason   == IF exitCode = -1
                    THEN <<scriptPath, " was terminated by a signal">>
                    ELSE <<scriptPath, " exited with a non-zero code ",
                           ToString(exitCode)>>
    IN  IF chainStatus = "rejected"
        THEN [status |-> "rejected", reason |-> "handler", exitCode |-> 0,
              stdout |-> <<>>, stderr |-> <<>>, message |-> <<>>]
        ELSE IF exitCode # 0
        THEN [status |-> "rejected",
              reason |-> IF exitCode = -1 THEN "signal" ELSE "nonzero",
              exitCode |-> exitCode, stdout |-> <<>>, stderr |-> <<>>,
              message |-> reason \o <<":\n">> \o stdout \o <<"\n">> \o stderr]
        ELSE [status |-> "resolved", reason |-> "", exitCode |-> exitCode,
              stdout |-> stdout, stderr |-> stderr, message |-> <<>>]

\* await eventChain returns and the callback resolves or rejects.
CloseResume ==
    /\ closePc = "awaiting"
    /\ AwaitDone(awaited)
    /\ closePc' = "done"
    /\ outcome' = Settle(outcome, handleProcessClose(closeCode, Status(awaited)))
    /\ UNCHANGED <<variant, build, client, procs, runs, request, launch, stdoutPipe, stderrPipe, stdinDestroyed, stdoutLines, stderrChunks, promises,
                   eventChain, closeCode, awaited, ackLog, callLog>>
    /\ UNCHANGED childVars

---------------------------------------------------------------------------
(* Two invocations side by side.  Each call of the run operation executes
   new Promise((resolve, reject) => {...}) and with it declares its own
   proc, stdoutLines and eventChain; procs[i] is the child of invocation i,
   runs[Closure(i)] the variables the callbacks of invocation i close over.
   Each child writes plain lines of its own and calls wait_for. *)

soloVars == <<variant, build, client, request, launch, childState, blockedOn, emitted, written,
              partial, stdoutPipe,
              stderrPipe, stdinBuf, stdinDestroyed, stdoutLines, stderrChunks,
              promises, eventChain, closePc, closeCode, awaited, outcome,
              ackLog, callLog>>

\* Mutant of Closure: stdoutLines and eventChain are declared once, at
\* module level.
Closure_ModuleLevel(i) == 1

\* The variables the callbacks of invocation i use: the ones declared in
\* the executor of its own promise.
Closure(i) == i

\* The plain line child i writes.
ScriptOutput(i) == <<"out of script", ToString(i)>>

PairPuts(i) ==
    /\ procs[i].state = "running"
    /\ Len(procs[i].written) < MaxPairLines
    /\ procs' = [procs EXCEPT
                    ![i].written = Append(@, ScriptOutput(i)),
                    ![i].stdoutPipe = Append(@, ScriptOutput(i))]
    /\ UNCHANGED runs
    /\ UNCHANGED soloVars

\* Child i calls wait_for: the event line is written and the child blocks
\* in $stdin.gets.
PairWaitFor(i) ==
    /\ procs[i].state = "running"
    /\ Len(procs[i].written) < MaxPairLines
    /\ procs' = [procs EXCEPT
                    ![i].state = "blocked",
                    ![i].written = Append(@, <<EVENT_PREFIX, WaitForJson>>),
                    ![i].stdoutPipe = Append(@, <<EVENT_PREFIX, WaitForJson>>)]
    /\ UNCHANGED runs
    /\ UNCHANGED soloVars

PairGets(i) ==
    /\ procs[i].state = "blocked"
    /\ procs[i].stdin > 0
    /\ procs' = [procs EXCEPT ![i].state = "running", ![i].stdin = @ - 1]
    /\ UNCHANGED runs
    /\ UNCHANGED soloVars

\* Child i exits with code 0 and Node destroys its stdin.
PairExit(i) ==
    /\ procs[i].state = "running"
    /\ procs' = [procs EXCEPT ![i].state = "exited"]
    /\ UNCHANGED runs
    /\ UNCHANGED soloVars

\* rl.on("line") of invocation i: a plain line is pushed on stdoutLines, a
\* handler is chained on eventChain for an event.
PairOnLine(i) ==
    /\ procs[i].stdoutPipe # <<>>
    /\ LET line == Head(procs[i].stdoutPipe)
           c == Closure(i)
       IN  IF startsWith(line, TRIGGER_EVENT_PREFIX)
           THEN runs' = [runs EXCEPT ![c].eventChain =
                            Append(@, [from |-> i, status |-> "pending"])]
           ELSE runs' = [runs EXCEPT ![c].stdoutLines = Append(@, line)]
    /\ procs' = [procs EXCEPT ![i].stdoutPipe = Tail(@)]
    /\ UNCHANGED soloVars

\* The handlers of eventChain of invocation i that can start: pending, with
\* every handler chained before fulfilled.
PairReady(i) ==
    LET chain == runs[Closure(i)].eventChain
    IN  {k \in DOMAIN chain :
            /\ chain[k].status = "pending"
            /\ \A j \in 1..(k - 1) : chain[j].status = "fulfilled"}

\* A handler on the chain of invocation i starts: await wait.for(...).
PairHandlerStart(i) ==
    /\ \E k \in PairReady(i) :
           runs' = [runs EXCEPT ![Closure(i)].eventChain[k].status = "running"]
    /\ UNCHANGED procs
    /\ UNCHANGED soloVars

\* wait.for settles: the handler writes the acknowledgment to the stdin of
\* its proc, unless destroyed, and its promise is fulfilled.
PairHandlerSettle(i) ==
    /\ \E k \in DOMAIN runs[Closure(i)].eventChain :
           LET h == runs[Closure(i)].eventChain[k]
           IN  /\ h.status = "running"
               /\ runs' = [runs EXCEPT
                              ![Closure(i)].eventChain[k].status = "fulfilled"]
               /\ IF sendAcknowledgment(procs[h.from].state = "exited")
                  THEN procs' = [procs EXCEPT ![h.from].stdin = @ + 1,
                                              ![h.from].acks = @ + 1]
                  ELSE UNCHANGED procs
    /\ UNCHANGED soloVars

\* 'close' of child i and the end of await eventChain: the invocation
\* resolves.
PairClose(i) ==
    /\ procs[i].state = "exited"
    /\ procs[i].stdoutPipe = <<>>
    /\ runs[i].outcome = "pending"
    /\ \A k \in DOMAIN runs[Closure(i)].eventChain :
           runs[Closure(i)].eventChain[k].status = "fulfilled"
    /\ runs' = [runs EXCEPT ![i].outcome = "resolved"]
    /\ UNCHANGED procs
    /\ UNCHANGED soloVars

NextPair ==
    \/ \E i \in Runs : PairPuts(i)
    \/ \E i \in Runs : PairWaitFor(i)
    \/ \E i \in Runs : PairGets(i)
    \/ \E i \in Runs : PairExit(i)
    \/ \E i \in Runs : PairOnLine(i)
    \/ \E i \in Runs : PairHandlerStart(i)
    \/ \E i \in Runs : PairHandlerSettle(i)
    \/ \E i \in Runs : PairClose(i)

SpecPair == Init /\ [][NextPair]_vars

---------------------------------------------------------------------------

Next ==
    \/ SpawnOk
    \/ SpawnError
    \/ \E text \in RawLines : ChildPuts(text)
    \/ \E m \in Methods : emit_event(m)
    \/ ChildGets
    \/ ChildExit
    \/ ChildKilled
    \/ ProcExit
    \/ OnLineRails
    \/ OnLineExec
    \/ \E p \in DOMAIN promises, ok \in BOOLEAN : HandlerStart(p, ok)
    \/ \E p \in DOMAIN promises, ok \in BOOLEAN : HandlerSettle(p, ok)
    \/ \E code \in CloseCodes : ProcClose(code)
    \/ CloseResume

Spec == Init /\ [][Next]_vars

\* The invocations of a script that calls only heartbeat, wait_for and
\* wait_until and writes no other line.
LiveMethods == {"heartbeat", "wait_for", "wait_until"}

NextLive ==
    \/ SpawnOk
    \/ SpawnError
    \/ \E m \in LiveMethods : emit_event(m)
    \/ ChildGets
    \/ ChildExit
    \/ ChildKilled
    \/ ProcExit
    \/ OnLineRails
    \/ OnLineExec
    \/ \E p \in DOMAIN promises, ok \in BOOLEAN : HandlerStart(p, ok)
    \/ \E p \in DOMAIN promises, ok \in BOOLEAN : HandlerSettle(p, ok)
    \/ \E code \in CloseCodes : ProcClose(code)
    \/ CloseResume

\* The child reads stdin when the operating system hands it a line.
SpecLive == Init /\ [][NextLive]_vars /\ WF_vars(ChildGets)

\* The invocations of a script that calls the helper with arguments.
NextArgs ==
    \/ SpawnOk
    \/ SpawnError
    \/ \E c \in HelperCalls : HelperCall(c)
    \/ ChildGets
    \/ ChildExit
    \/ ChildKilled
    \/ ProcExit
    \/ OnLineRails
    \/ OnLineExec
    \/ \E p \in DOMAIN promises, ok \in BOOLEAN : HandlerStart(p, ok)
    \/ \E p \in DOMAIN promises, ok \in BOOLEAN : HandlerSettle(p, ok)
    \/ \E code \in CloseCodes : ProcClose(code)
    \/ CloseResume

SpecArgs == Init /\ [][NextArgs]_vars

\* What a script prints without a newline, and the methods it calls, in the
\* invocations that look at unfinished lines.
PrintTexts == { <<"working">> }

PrintMethods == {"heartbeat", "wait_for"}

NextPrint ==
    \/ SpawnOk
    \/ SpawnError
    \/ \E text \in PrintTexts : ChildPrint(text)
    \/ ChildPuts(<<"out">>)
    \/ \E m \in PrintMethods : emit_event(m)
    \/ ChildGets
    \/ ChildExit
    \/ ChildKilled
    \/ ProcExit
    \/ OnLineRails
    \/ OnLineExec
    \/ \E p \in DOMAIN promises, ok \in BOOLEAN : HandlerStart(p, ok)
    \/ \E p \in DOMAIN promises, ok \in BOOLEAN : HandlerSettle(p, ok)
    \/ \E code \in CloseCodes : ProcClose(code)
    \/ CloseResume

SpecPrint == Init /\ [][NextPrint]_vars

\* The steps of the host: the event loop delivers every notification that is
\* due and runs every callback that is ready, and every host operation that
\* was started settles.
HostStep ==
    \/ ProcExit
    \/ OnLineRails
    \/ OnLineExec
    \/ \E p \in DOMAIN promises, ok \in BOOLEAN : HandlerStart(p, ok)
    \/ \E p \in DOMAIN promises, ok \in BOOLEAN : HandlerSettle(p, ok)
    \/ \E code \in CloseCodes : ProcClose(code)
    \/ CloseResume

\* The invocations of SpecLive under a host that keeps taking its steps; the
\* child is not obliged to do anything.
SpecDrain == Init /\ [][NextLive]_vars /\ WF_vars(HostStep)

\* The invocations of a script that writes output lines, among them an empty
\* one and a prefixed one that is not JSON, writes to stderr and calls
\* wait_for.
StreamLines == { <<"out">>, <<>>, <<EVENT_PREFIX, "{not valid json">> }

StreamMethods == {"wait_for"}

NextStreams ==
    \/ SpawnOk
    \/ SpawnError
    \/ \E text \in StreamLines : ChildPuts(text)
    \/ \E m \in StreamMethods : emit_event(m)
    \/ \E chunk \in ErrChunks : ChildWarn(chunk)
    \/ ChildGets
    \/ ChildExit
    \/ ChildKilled
    \/ ProcExit
    \/ OnStderrData
    \/ OnLineRails
    \/ OnLineExec
    \/ \E p \in DOMAIN promises, ok \in BOOLEAN : HandlerStart(p, ok)
    \/ \E p \in DOMAIN promises, ok \in BOOLEAN : HandlerSettle(p, ok)
    \/ \E code \in CloseCodes : ProcClose(code)
    \/ CloseResume

SpecStreams == Init /\ [][NextStreams]_vars

\* The invocations of a script that writes output lines, a prefixed line
\* that is not JSON and an event of unknown type, and calls heartbeat,
\* wait_for and log.
TextLines == { <<"out">>,
               <<EVENT_PREFIX, "{not valid json">>,
               <<EVENT_PREFIX, OtherJson>> }

TextMethods == {"heartbeat", "wait_for", "log"}

NextText ==
    \/ SpawnOk
    \/ SpawnError
    \/ \E text \in TextLines : ChildPuts(text)
    \/ \E m \in TextMethods : emit_event(m)
    \/ ChildGets
    \/ ChildExit
    \/ ChildKilled
    \/ ProcExit
    \/ OnLineRails
    \/ OnLineExec
    \/ \E p \in DOMAIN promises, ok \in BOOLEAN : HandlerStart(p, ok)
    \/ \E p \in DOMAIN promises, ok \in BOOLEAN : HandlerSettle(p, ok)
    \/ \E code \in CloseCodes : ProcClose(code)
    \/ CloseResume

SpecText == Init /\ [][NextText]_vars

\* The invocations of a script that writes output lines and prefixed lines
\* whose payload is JSON but no object with a type tag, and calls wait_for.
ShapeLines == { <<"out">>,
                <<EVENT_PREFIX, NullJson>>,
                <<EVENT_PREFIX, NumberJson>>,
                <<EVENT_PREFIX, StringJson>>,
                <<EVENT_PREFIX, NoTypeJson>> }

ShapeMethods == {"wait_for"}

NextShapes ==
    \/ SpawnOk
    \/ SpawnError
    \/ \E text \in ShapeLines : ChildPuts(text)
    \/ \E m \in ShapeMethods : emit_event(m)
    \/ ChildGets
    \/ ChildExit
    \/ ChildKilled
    \/ ProcExit
    \/ OnLineRails
    \/ OnLineExec
    \/ \E p \in DOMAIN promises, ok \in BOOLEAN : HandlerStart(p, ok)
    \/ \E p \in DOMAIN promises, ok \in BOOLEAN : HandlerSettle(p, ok)
    \/ \E code \in CloseCodes : ProcClose(code)
    \/ CloseResume

SpecShapes == Init /\ [][NextShapes]_vars

---------------------------------------------------------------------------
(* Vocabulary of the properties *)

Done(p) == promises[p].status \in {"fulfilled", "rejected"}

Started(p) == promises[p].status # "pending"

WaitTypes == {"wait.for", "wait.until"}

NoAckTypes == {"heartbeat", "log", "metadata.set", "metadata.append"}

WaitHandlers == {p \in Handlers : promises[p].event.type \in WaitTypes}

\* The acknowledgment writes handler p made.
AckCount(p) == Cardinality({i \in DOMAIN ackLog : ackLog[i] = p})

\* The host operation of handler p threw: the catch block logged it.
Threw(p) ==
    \E i \in DOMAIN callLog : callLog[i].p = p /\ callLog[i].op = "logger.error"

\* The host operations invoked, without the calls of logger.error.
Invocations == SelectSeq(callLog, LAMBDA c : c.op # "logger.error")

\* The handler of the event line at stream position n.
HandlerOf(n) == {p \in Handlers : promises[p].n = n}

\* The lines of the child's stdout the line handler has been called with.
Consumed == SubSeq(written, 1, Len(written) - Len(stdoutPipe))

\* A line that does not start with the event prefix.
IsPlain(line) == ~startsWith(line, TRIGGER_EVENT_PREFIX)

\* A line that starts with the event prefix and whose payload is not one
\* JSON text.
IsMalformed(line) ==
    /\ Len(line) > 0 /\ line[1] = EVENT_PREFIX
    /\ ~(Len(line) = 2 /\ line[2] \in DOMAIN JSONTable)

RECURSIVE SplitLines(_)
\* The lines of a non-empty text: what stands between its newlines.
SplitLines(text) ==
    IF \A i \in DOMAIN text : text[i] # "\n" THEN <<text>>
    ELSE LET k == CHOOSE i \in DOMAIN text :
                      text[i] = "\n" /\ \A j \in 1..(i - 1) : text[j] # "\n"
         IN  <<SubSeq(text, 1, k - 1)>>
                 \o SplitLines(SubSeq(text, k + 1, Len(text)))

\* The lines of a text, none for the empty text.
LinesOf(text) == IF text = <<>> THEN <<>> ELSE SplitLines(text)

\* The stream positions of the lines that caused a host operation, a call
\* of logger.error or an acknowledgment write.
ActedOn ==
    {callLog[i].n : i \in DOMAIN callLog}
        \cup {promises[ackLog[i]].n : i \in DOMAIN ackLog}

---------------------------------------------------------------------------
(* C1: within one invocation no two event handlers run at the same time: a
   handler has started only if every handler of an earlier event line has
   settled, so at most one host operation is in flight. *)
C1_HandlersNeverOverlap ==
    /\ \A p, q \in Handlers : (p < q /\ Started(q)) => Done(p)
    /\ Cardinality({p \in Handlers : promises[p].status = "running"}) <= 1

\* Three event lines have arrived: the first handler has settled, the second
\* is in flight and the third waits for it.
C1_Witness ==
    \E p, q, r \in Handlers :
        /\ p < q /\ q < r
        /\ Done(p) /\ promises[q].status = "running"
        /\ promises[r].status = "pending"

(* C2: host operations are invoked in the order in which their event lines
   stand in the child's stdout, also with plain lines between them: the
   stream positions in the call log increase, and a handler has started only
   if the handlers of all earlier event lines have. *)
C2_HandlersStartInArrivalOrder ==
    /\ \A i, j \in DOMAIN Invocations :
           i < j => Invocations[i].n < Invocations[j].n
    /\ \A p, q \in Handlers : p < q => promises[p].n < promises[q].n
    /\ \A p, q \in Handlers : (p < q /\ Started(q)) => Started(p)

\* Event, plain line, event: both host operations were invoked, the one of
\* line 1 first, and the plain line is in the output.
C2_Witness ==
    /\ Len(Invocations) = 2
    /\ Invocations[1].n = 1 /\ Invocations[2].n = 3
    /\ stdoutLines = << <<"out">> >>

(* C3, as stated: every wait.for or wait.until event gets exactly one
   acknowledgment write, made when its handler settles and not before: a
   settled wait handler has written once, an unsettled one not at all. *)
C3_ExactlyOneAckPerWait ==
    \A p \in WaitHandlers : AckCount(p) = (IF Done(p) THEN 1 ELSE 0)

(* C3, amended: a wait handler writes the acknowledgment in the step in
   which it settles, exactly once when proc.stdin is not destroyed at that
   moment and not at all when it is destroyed; it writes at no other time,
   whether the host operation succeeded or threw. *)
C3_OneAckWhenStdinOpen ==
    [][ \A p \in WaitHandlers :
          LET settles == ~Done(p) /\ Done(p)'
          IN  /\ AckCount(p) <= 1
              /\ ~Done(p) => AckCount(p) = 0
              /\ (settles /\ ~stdinDestroyed) =>
                     (AckCount(p)' = 1 /\ stdinBuf' = stdinBuf + 1)
              /\ (settles /\ stdinDestroyed) => AckCount(p)' = 0
              /\ ~settles => AckCount(p)' = AckCount(p) ]_vars

\* A wait handler whose host operation threw has settled with stdin open and
\* has written its one acknowledgment.
C3_Witness ==
    \E p \in WaitHandlers : Done(p) /\ Threw(p) /\ AckCount(p) = 1

(* C4: a heartbeat, log, metadata.set or metadata.append event never causes
   an acknowledgment write, also when its host operation fails: every write
   in the log was made by the handler of a wait event. *)
C4_NoAckForNonWaitEvents ==
    \A i \in DOMAIN ackLog : promises[ackLog[i]].event.type \notin NoAckTypes

(* C5: a child blocked in wait_for or wait_until resumes only after the host
   operation of that same wait event has settled, whatever was written to
   its stdin before. *)
C5_ResumeOnlyAfterOwnHandler ==
    [][ (childState = "blocked" /\ childState' = "running") =>
            \E p \in HandlerOf(blockedOn) : Done(p) ]_vars

(* C6: whenever the child is blocked on stdin after a wait event and the
   handler of that event has settled, by success or by failure, the
   acknowledgment is there to read and the child leaves the blocking read:
   it resumes, unless it is killed first. *)
C6_BlockedChildResumes ==
    (childState = "blocked" /\ \E p \in HandlerOf(blockedOn) : Done(p))
        ~> (childState # "blocked")

\* The child has resumed from a wait whose host operation threw: it is
\* running, the wait event is the last line it wrote, and nothing else was
\* ever acknowledged.
C6_Witness ==
    \E p \in WaitHandlers :
        /\ Threw(p) /\ promises[p].n = emitted
        /\ childState = "running"
        /\ ackLog = <<p>>

(* C7: when the returned promise is settled, every event handler created
   for a line of the child has finished, its acknowledgment write included:
   none is pending or in flight, so no handler outlives the promise. *)
C7_SettledOnlyAfterChainDrained ==
    outcome.status # "pending" =>
        /\ \A p \in Handlers : Done(p)
        /\ stdoutPipe = <<>>

\* The promise has settled after close, behind an acknowledged wait handler
\* and a later handler.
C7_Witness ==
    /\ outcome.status # "pending"
    /\ closePc = "done"
    /\ \E p \in WaitHandlers, q \in Handlers : p < q /\ AckCount(p) = 1

(* C8: the failure of a handler's host operation never changes the outcome:
   the invocation rejects only for a spawn failure or a non-zero or signal
   exit, and once the close callback has finished for exit code 0 the
   invocation is resolved. *)
C8_HandlerFailureNeverRejects ==
    /\ outcome.status = "rejected" =>
           outcome.reason \in {"spawn", "nonzero", "signal"}
    /\ (closePc = "done" /\ closeCode = <<0>>) => outcome.status = "resolved"

\* Resolved with exit code 0 although each of two handlers threw.
C8_Witness ==
    /\ outcome.status = "resolved"
    /\ Cardinality(Handlers) >= 2
    /\ \A p \in Handlers : Threw(p)

\* The phase of the invocation, and its place in the order of phases.
Phase ==
    IF outcome.status # "pending" THEN outcome.status
    ELSE IF closePc # "idle" THEN "finalizing"
    ELSE IF childState = "spawning" THEN "spawned"
    ELSE "running"

Rank(ph) ==
    CASE ph = "spawned" -> 0
      [] ph = "running" -> 1
      [] ph = "finalizing" -> 2
      [] ph \in {"resolved", "rejected"} -> 3

(* C9: the invocation only moves forward through spawned, running, closed
   and finalizing to resolved or rejected; it resolves, or rejects for the
   exit code, only in a step of the close callback taken after close was
   observed and with the awaited chain settled; resolved and rejected are
   never left. *)
C9_LifecycleMovesForward ==
    [][ /\ Rank(Phase') >= Rank(Phase)
        /\ Phase \in {"resolved", "rejected"} => Phase' = Phase
        /\ (outcome.status = "pending" /\ outcome'.status # "pending"
              /\ outcome'.reason # "spawn") =>
               (closePc = "awaiting" /\ Settled(awaited) /\ closePc' = "done")
        /\ (closePc = "idle" /\ closePc' # "idle") =>
               childState \in {"exited", "killed", "failed"} ]_vars

\* The invocation has resolved from finalizing, having awaited the last
\* promise of a chain that holds a handler with an awaited host operation.
C9_Witness ==
    /\ outcome.status = "resolved"
    /\ closePc = "done"
    /\ awaited > 0 /\ awaited = Len(promises)
    /\ \E p \in Handlers : handleTriggerEvent(promises[p].event).async

(* C10: the result is produced at most once: once the returned promise is
   settled, no later 'error' or 'close' notification changes its outcome. *)
C10_OutcomeSettlesOnce ==
    [][ outcome.status # "pending" => outcome' = outcome ]_vars

\* The spawn failed: 'error' rejected the promise, and the 'close' callback
\* has since run to its end and rejected again.
C10_Witness ==
    /\ closePc = "done"
    /\ outcome.status = "rejected" /\ outcome.reason = "spawn"

(* C11: every line of the child's stdout that does not start with the event
   prefix is pushed on the output as it is when the line handler reads it,
   in the order of arrival among the plain lines, and stands in the stdout
   of the result; no handler is created for it, so it causes neither a host
   operation nor an acknowledgment write. *)
C11_PlainLinesPassThrough ==
    /\ SelectSeq(stdoutLines, IsPlain) = SelectSeq(Consumed, IsPlain)
    /\ \A p \in Handlers : ~IsPlain(written[promises[p].n])
    /\ \A n \in ActedOn : ~IsPlain(written[n])
    /\ outcome.status = "resolved" =>
           SelectSeq(LinesOf(outcome.stdout), IsPlain)
               = SelectSeq(written, IsPlain)

\* Resolved after a plain line, a wait event and a second plain line: the
\* result holds both plain lines and the one acknowledgment is the wait's.
C11_Witness ==
    /\ outcome.status = "resolved"
    /\ outcome.stdout = <<"out", "\n", "out">>
    /\ Len(written) = 3 /\ ~IsPlain(written[2])
    /\ Len(ackLog) = 1

\* A line the line handler pushes on the output: a plain line, or a
\* prefixed line whose payload is not JSON.
IsOutput(line) == IsPlain(line) \/ IsMalformed(line)

(* C12: a line that starts with the event prefix and whose payload is not
   JSON is pushed on the output like a plain line, at its place among the
   output lines, and stands in the stdout of the result; no handler is
   created for it, so no host operation, no logger.error and no
   acknowledgment write come from it, and it never makes the invocation
   reject. *)
C12_MalformedLineIsOutput ==
    /\ stdoutLines = SelectSeq(Consumed, IsOutput)
    /\ \A p \in Handlers : ~IsMalformed(written[promises[p].n])
    /\ \A n \in ActedOn : ~IsMalformed(written[n])
    /\ outcome.status = "resolved" =>
           LinesOf(outcome.stdout) = SelectSeq(written, IsOutput)
    /\ (closePc = "done" /\ closeCode = <<0>> /\ childState # "failed") =>
           outcome.status = "resolved"

\* Resolved after a malformed line, a log event and a plain line: the
\* operation of the log event was invoked and the result holds the
\* malformed line before the plain one.
C12_Witness ==
    /\ outcome.status = "resolved"
    /\ outcome.stdout = <<EVENT_PREFIX, "{not valid json", "\n", "out">>
    /\ Len(written) = 3 /\ IsMalformed(written[1])
    /\ \E i \in DOMAIN callLog : callLog[i].n = 2 /\ callLog[i].op = "logger.log"

\* A line that starts with the event prefix and whose payload is JSON but
\* fits no event shape: null, a number, a string, an object without a type.
IsShapeless(line) ==
    /\ Len(line) = 2 /\ line[1] = EVENT_PREFIX
    /\ line[2] \in {NullJson, NumberJson, StringJson, NoTypeJson}

(* C13: a line that starts with the event prefix and whose payload parses
   as JSON but fits no event shape is pushed on the output like a plain
   line; no host operation, no logger.error and no acknowledgment write come
   from it. *)
C13_ShapelessLineIsOutput ==
    /\ stdoutLines =
           SelectSeq(Consumed, LAMBDA l : IsOutput(l) \/ IsShapeless(l))
    /\ \A n \in ActedOn : ~IsShapeless(written[n])

(* C14, as stated: no line that starts with the event prefix is ever in the
   output sequence or in the stdout of the result. *)
C14_NoPrefixedLineInOutput ==
    /\ \A i \in DOMAIN stdoutLines : IsPlain(stdoutLines[i])
    /\ outcome.status = "resolved" =>
           \A i \in DOMAIN LinesOf(outcome.stdout) :
               IsPlain(LinesOf(outcome.stdout)[i])

(* C14, amended: a line that starts with the event prefix and whose payload
   is JSON is intercepted: a handler is chained for it and it is never in
   the output sequence nor in the stdout of the result.  The only prefixed
   lines there are those whose payload is not JSON. *)
C14_EventLinesIntercepted ==
    /\ \A i \in DOMAIN stdoutLines : IsOutput(stdoutLines[i])
    /\ \A n \in DOMAIN Consumed :
           ~IsOutput(written[n]) => HandlerOf(n) # {}
    /\ outcome.status = "resolved" =>
           \A i \in DOMAIN LinesOf(outcome.stdout) :
               IsOutput(LinesOf(outcome.stdout)[i])

\* Resolved after a log event, an event of unknown type and a plain line:
\* the result holds the plain line only.
C14_Witness ==
    /\ outcome.status = "resolved"
    /\ outcome.stdout = <<"out">>
    /\ written = << <<EVENT_PREFIX, LogJson>>, <<EVENT_PREFIX, OtherJson>>,
                    <<"out">> >>

\* An event line whose type tag the host does not know.
IsUnknown(line) == line = <<EVENT_PREFIX, OtherJson>>

UnknownHandlers == {p \in Handlers : IsUnknown(written[promises[p].n])}

(* C15: an event with an unknown type tag is a no-op: its handler invokes no
   host operation, logs no error, writes no acknowledgment and is never in
   flight or rejected; the handlers behind it keep their order and the next
   one is ready to run as soon as every handler before it has settled. *)
C15_UnknownTypeIsNoOp ==
    /\ \A n \in ActedOn : ~IsUnknown(written[n])
    /\ \A p \in UnknownHandlers : promises[p].status \in {"pending", "fulfilled"}
    /\ \A q \in Handlers :
           (promises[q].status = "pending"
               /\ \A p \in Handlers : p < q => Done(p)) => ReadyToRun(q)
    /\ \A p, q \in Handlers : (p < q /\ Started(q)) => Started(p)

\* An event of unknown type, then wait_for: the unknown event left no trace,
\* and the wait was handled and acknowledged behind it.
C15_Witness ==
    /\ Len(written) >= 2 /\ IsUnknown(written[1])
    /\ \E p \in UnknownHandlers : Done(p)
    /\ Len(callLog) = 1 /\ callLog[1].n = 2 /\ callLog[1].op = "wait.for"
    /\ Len(ackLog) = 1 /\ promises[ackLog[1]].n = 2

(* C16: when a handler settles while the child's stdin is destroyed (the
   child has gone), it writes no acknowledgment, whether its host operation
   succeeded or threw, and its promise is fulfilled all the same; the close
   callback then resolves the invocation exactly when the exit code is 0. *)
C16_NoAckOnceStdinDestroyed ==
    [][ /\ \A p \in Handlers :
              (~Done(p) /\ Done(p)' /\ stdinDestroyed) =>
                  /\ ackLog' = ackLog
                  /\ stdinBuf' = stdinBuf
                  /\ promises'[p].status = "fulfilled"
        /\ (closePc = "awaiting" /\ closePc' = "done"
              /\ outcome.status = "pending") =>
               /\ outcome'.status = "resolved" <=> closeCode = <<0>>
               /\ outcome'.status = "rejected" <=> closeCode # <<0>> ]_vars

\* The child has exited with code 0 and the invocation has resolved; a
\* handler whose host operation threw settled without an acknowledgment
\* write, which happens only with stdin destroyed.
C16_Witness ==
    /\ outcome.status = "resolved"
    /\ childState = "exited"
    /\ \E p \in Handlers : Done(p) /\ Threw(p) /\ AckCount(p) = 0

(* C17: a handler that is pending or in flight does not hold back plain
   output: whenever a line waits in the pipe the line handler can take it,
   whatever the state of the chain, so every plain line read so far is in
   the output sequence; only the handlers of later events wait, each until
   every handler before it has settled. *)
C17_PlainOutputNotDelayed ==
    /\ stdoutPipe # <<>> => ENABLED (OnLineRails \/ OnLineExec)
    /\ SelectSeq(stdoutLines, IsPlain) = SelectSeq(Consumed, IsPlain)
    /\ \A p, q \in Handlers :
           (p < q /\ ~Done(p)) => promises[q].status = "pending"

\* A heartbeat, a plain line and a log event were written and read: the
\* heartbeat is still in flight, the plain line is in the output, and the
\* handler of the log event waits.
C17_Witness ==
    /\ written = << <<EVENT_PREFIX, HeartbeatJson>>, <<"out">>,
                    <<EVENT_PREFIX, LogJson>> >>
    /\ stdoutPipe = <<>>
    /\ stdoutLines = << <<"out">> >>
    /\ \E p, q \in Handlers :
           /\ promises[p].n = 1 /\ promises[p].status = "running"
           /\ promises[q].n = 3 /\ promises[q].status = "pending"

RECURSIVE Offset(_, _)
\* The length of the first k of the pieces.
Offset(pieces, k) ==
    IF k = 0 THEN 0 ELSE Offset(pieces, k - 1) + Len(pieces[k])

\* text is the pieces one after the other, in their order.
IsConcatOf(text, pieces) ==
    /\ Len(text) = Offset(pieces, Len(pieces))
    /\ \A k \in DOMAIN pieces :
           SubSeq(text, Offset(pieces, k - 1) + 1, Offset(pieces, k)) = pieces[k]

\* text is the lines in their order with one newline between neighbours.
IsJoinOf(text, lines) ==
    IsConcatOf(text, [k \in DOMAIN lines |->
                        IF k = 1 THEN lines[k] ELSE <<"\n">> \o lines[k]])

(* C19: when the child has exited with code 0 and the close callback has
   finished, the invocation is resolved with exitCode 0, with stdout the
   output lines (every line written that is not an event) in the order
   written with a newline between neighbours, and with stderr the chunks
   received, all of them, one after the other in the order of arrival. *)
C19_ExitZeroResolvesWithStreams ==
    (closePc = "done" /\ childState = "exited" /\ closeCode = <<0>>) =>
        /\ outcome.status = "resolved"
        /\ outcome.exitCode = 0
        /\ IsJoinOf(outcome.stdout, SelectSeq(written, IsOutput))
        /\ stderrPipe = <<>>
        /\ IsConcatOf(outcome.stderr, stderrChunks)

\* Resolved with two output lines, the second one empty, and two chunks of
\* stderr: newlines stand between the lines and none between the chunks.
C19_Witness ==
    /\ outcome.status = "resolved"
    /\ outcome.stdout = <<"out", "\n">>
    /\ Len(written) = 3
    /\ outcome.stderr = <<"warning", "E1", "\n", "E2", "\n">>

\* The pieces of text that stand in text, from one position to another.
Parts(text) ==
    {SubSeq(text, a + 1, b) : a \in 0..Len(text), b \in 0..Len(text)}

(* C20: when the child has exited with a code N other than 0 and the close
   callback has finished, the invocation is rejected, and the message of
   the error holds the script path, the code N, the stdout captured (the
   output lines joined by newlines) and the stderr captured (the chunks one
   after the other); the invocation is resolved for exit code 0 only. *)
C20_NonZeroExitRejectsWithMessage ==
    /\ outcome.status = "resolved" =>
           (childState = "exited" /\ closeCode = <<0>>)
    /\ \A N \in ExitCodes \ {0} :
           (closePc = "done" /\ childState = "exited" /\ closeCode = <<N>>) =>
               /\ outcome.status = "rejected"
               /\ <<scriptPath>> \in Parts(outcome.message)
               /\ <<ToString(N)>> \in Parts(outcome.message)
               /\ \E t \in Parts(outcome.message) :
                      IsJoinOf(t, SelectSeq(written, IsOutput))
               /\ \E t \in Parts(outcome.message) :
                      IsConcatOf(t, stderrChunks)

\* Rejected for exit code 7 after two output lines and two chunks of
\* stderr.
C20_Witness ==
    /\ outcome.status = "rejected"
    /\ closeCode = <<7>>
    /\ outcome.message =
           <<scriptPath, " exited with a non-zero code ", "7", ":\n",
             "out", "\n", "out", "\n", "warning", "warning">>

\* a is the beginning of b.
IsPrefix(a, b) == Len(a) <= Len(b) /\ a = SubSeq(b, 1, Len(a))

\* The handlers chained for the wait events of child i, by the closure
\* that holds them and their place on its chain.
OwnHandlers(i) ==
    {ck \in Runs \X (1..MaxPairLines * Cardinality(Runs)) :
        /\ ck[2] \in DOMAIN runs[ck[1]].eventChain
        /\ runs[ck[1]].eventChain[ck[2]].from = i}

OwnStatus(ck) == runs[ck[1]].eventChain[ck[2]].status

(* C18: of two invocations running at the same time, under every
   interleaving of the lines of their children: the output of each holds
   only plain lines its own child wrote, in the order written; the
   acknowledgments written to the stdin of a child are as many as the wait
   events of that child whose handler has settled; a handler can start as
   soon as the handlers of the earlier events of the same child have
   settled, and an invocation whose child has exited can complete as soon as
   its own lines are read and its own handlers have settled, whatever the
   other invocation's handlers do. *)
C18_InvocationsShareNoState ==
    \A i \in Runs :
        /\ IsPrefix(runs[i].stdoutLines, SelectSeq(procs[i].written, IsPlain))
        /\ procs[i].acks =
               Cardinality({ck \in OwnHandlers(i) : OwnStatus(ck) = "fulfilled"})
        /\ (\E ck \in OwnHandlers(i) :
                /\ OwnStatus(ck) = "pending"
                /\ \A cj \in OwnHandlers(i) :
                       cj[2] < ck[2] => OwnStatus(cj) = "fulfilled")
               => ENABLED PairHandlerStart(i)
        /\ (/\ procs[i].state = "exited" /\ procs[i].stdoutPipe = <<>>
            /\ runs[i].outcome = "pending"
            /\ \A ck \in OwnHandlers(i) : OwnStatus(ck) = "fulfilled")
               => ENABLED PairClose(i)

\* Invocation 2 has resolved with its own line after an acknowledged wait
\* while the wait handler of invocation 1 is still in flight behind a line
\* of its own.
C18_Witness ==
    /\ runs[2].outcome = "resolved"
    /\ runs[2].stdoutLines = <<ScriptOutput(2)>>
    /\ procs[2].acks = 1 /\ procs[1].acks = 0
    /\ runs[1].stdoutLines = <<ScriptOutput(1)>>
    /\ \E ck \in OwnHandlers(1) : OwnStatus(ck) = "running"

(* C21: when the child was terminated by a signal, 'close' reports null:
   the close callback takes -1 for the exit code, which is no exit status of
   a child that exits by itself, and once it has finished the invocation is
   rejected with a message that names the script and says it was terminated
   by a signal; it rejects in this way for a killed child only. *)
C21_SignalRejectsWithSentinel ==
    /\ \A c \in ExitCodes : c >= 0 /\ Coalesce(<<c>>) # -1
    /\ closePc # "idle" => (closeCode = <<>> <=> childState = "killed")
    /\ (closePc = "done" /\ childState = "killed") =>
           /\ outcome.status = "rejected"
           /\ outcome.exitCode = -1
           /\ <<scriptPath, " was terminated by a signal">>
                  \in Parts(outcome.message)
    /\ outcome.reason = "signal" => childState = "killed"

\* The child was killed while blocked in wait_for after an output line and
\* a chunk of stderr; the invocation has rejected.
C21_Witness ==
    /\ childState = "killed"
    /\ closePc = "done"
    /\ outcome.message =
           <<scriptPath, " was terminated by a signal", ":\n", "out", "\n",
             "warning">>
    /\ \E p \in WaitHandlers : AckCount(p) = 0

(* C23: once the spawn has failed and 'error' was notified, the invocation
   is rejected with the error of the spawn, at once and for good: neither
   the 'close' that follows nor the end of its callback changes that, and
   no result is ever produced. *)
C23_SpawnFailureRejects ==
    childState = "failed" =>
        /\ outcome.status = "rejected"
        /\ outcome.reason = "spawn"
        /\ outcome.message = <<"spawn ENOENT">>
        /\ outcome.stdout = <<>> /\ outcome.stderr = <<>>
        /\ written = <<>> /\ promises = <<>>

\* The spawn failed, 'close' came with the negative errno and its callback
\* has run to the end: the outcome is still the error of the spawn.
C23_Witness ==
    /\ childState = "failed"
    /\ closePc = "done" /\ closeCode = <<-2>>
    /\ outcome.message = <<"spawn ENOENT">>

(* C28: once the child has ended (it exited, was killed, or could not be
   spawned), and given that the host keeps taking its steps and every host
   operation a handler started settles, the event chain drains and the close
   callback reaches its end: every handler finishes and the returned promise
   is resolved or rejected. *)
C28_ClosedChildSettles ==
    (childState \in {"exited", "killed", "failed"})
        ~> (/\ outcome.status # "pending"
            /\ closePc = "done" \/ childState = "failed"
            /\ \A p \in Handlers : Done(p))

\* The child was killed while blocked in a wait after another event; both
\* handlers ran after that and the close callback rejected.
C28_Witness ==
    /\ childState = "killed" /\ emitted = 2
    /\ closePc = "done"
    /\ outcome.reason = "signal"
    /\ Len(callLog) = 2 /\ \A p \in Handlers : Done(p)
    /\ \E p \in WaitHandlers : promises[p].n = 2 /\ AckCount(p) = 0

\* The command whose name the child runs Rails by: what bundle exec is given,
\* or the binary that was spawned.
RailsBinary == IF launch.bin = <<"bundle">> THEN launch.args[2]
               ELSE launch.bin

(* C22: a run operation spawns a child only for a script path that was
   given and that names an existing file: whenever a child was spawned, the
   scriptPath of the request is not empty and is one of the files that
   exist.  Stated for runScript and for both forms of runRailsScript. *)
C22_NoSpawnWithoutScript ==
    launch.status = "spawned" =>
        /\ request.path # ""
        /\ request.path \in request.files

(* C26: the environment of the child is process.env with the variables of
   options.env that have a value put over it: for every name the caller
   may pass, the child sees the caller's text when there is one and the
   inherited value otherwise, a key whose value is undefined counting as
   not passed; no variable holds the text "undefined". *)
C26_ChildEnvIsCallerOverInherited ==
    launch.status = "spawned" =>
        \A k \in Names \ TelemetryNames :
            /\ ValueOf(launch.env, k) =
                   IF ValueOf(request.env, k).kind = "text"
                   THEN ValueOf(request.env, k)
                   ELSE ValueOf(request.processEnv, k)
            /\ ValueOf(launch.env, k) # Text(<<"undefined">>)

(* C27: the child of runRailsScript runs Rails by the path in
   RAILS_BIN_PATH when that variable is set, else by bin/rails when that
   file exists, else by the command rails. *)
C27_RailsBinaryResolution ==
    (launch.status = "spawned" /\ request.op = "runRailsScript") =>
        RailsBinary =
            IF ValueOf(request.processEnv, "RAILS_BIN_PATH").kind = "text"
            THEN ValueOf(request.processEnv, "RAILS_BIN_PATH").text
            ELSE IF "bin/rails" \in request.files
                 THEN <<"bin/rails">>
                 ELSE <<"rails">>

\* The JavaScript value a Ruby String or Integer arrives as.
Image(v) == IF v[1] = "String" THEN JSString(v[2]) ELSE JSNumber(v[2])

\* The properties a Ruby hash arrives as, nil values left out.
ImageHash(hash) ==
    {<<hash[i][1], Image(hash[i][2])>> :
        i \in {j \in DOMAIN hash : hash[j][2] # RNil}}

\* The host operation a call of the helper stands for, with its arguments.
Expected(c) ==
    CASE c.m = "heartbeat" ->
            [op |-> "heartbeats.yield", args |-> NoArguments]
      [] c.m = "wait_for" ->
            [op |-> "wait.for",
             args |-> Arguments(<<>>, ImageHash(c.kw), TRUE)]
      [] c.m = "wait_until" ->
            [op |-> "wait.until",
             args |-> Arguments(<<>>, {<<"date", JSDate("1893456000000")>>},
                                TRUE)]
      [] c.m = "log" ->
            [op |-> "logger.log",
             args |-> Arguments(<<Image(c.pos[1])>>, ImageHash(c.kw),
                                c.kw # <<>>)]
      [] c.m = "set_metadata" ->
            [op |-> "metadata.set",
             args |-> Arguments(<<Image(c.pos[1]), Image(c.pos[2])>>, {},
                                FALSE)]
      [] c.m = "append_metadata" ->
            [op |-> "metadata.append",
             args |-> Arguments(<<Image(c.pos[1]), Image(c.pos[2])>>, {},
                                FALSE)]

\* The calls of host operations made for the line at stream position n.
CallsFor(n) ==
    {i \in DOMAIN callLog : callLog[i].n = n /\ callLog[i].op # "logger.error"}

(* C24: for every event line that heartbeat, wait_for, wait_until,
   set_metadata or append_metadata wrote, the host invokes the operation of
   the event at most once, exactly once as soon as the handler of the line
   has started and so by the time the invocation settles, and with the
   arguments the line carries: nothing for heartbeat, the duration fields
   that were given and no type tag for wait.for, the date of the ISO text
   for wait.until, the key and the value for metadata.set and
   metadata.append. *)
C24_EventInvokesItsOperationOnce ==
    \A n \in DOMAIN Consumed :
        \A c \in HelperCalls :
            (c.m # "log" /\ written[n] = EventLine(c)) =>
                /\ Cardinality(CallsFor(n)) <= 1
                /\ \A i \in CallsFor(n) :
                       /\ callLog[i].op = Expected(c).op
                       /\ callLog[i].args = Expected(c).args
                /\ \A p \in HandlerOf(n) :
                       Started(p) => Cardinality(CallsFor(n)) = 1
                /\ closePc = "done" => Cardinality(CallsFor(n)) = 1

\* wait_for(hours: 1, minutes: 5, seconds: nil) followed by set_metadata:
\* both operations were invoked, wait.for with minutes and hours only, and
\* the invocation has settled.
C24_Witness ==
    /\ closePc = "done"
    /\ Len(callLog) = 2
    /\ callLog[1].op = "wait.for"
    /\ callLog[1].args.object = {<<"minutes", JSNumber("5")>>,
                                 <<"hours", JSNumber("1")>>}
    /\ callLog[2].op = "metadata.set"
    /\ callLog[2].args.values = <<JSString("k"), JSNumber("1")>>

(* C25: the line that log(m, **a) writes makes the host call logger.log
   exactly once, with the message m and with attributes equal to a (no
   attributes for an empty a). *)
C25_LogRoundTrip ==
    \A n \in DOMAIN Consumed :
        \A c \in HelperCalls :
            (c.m = "log" /\ written[n] = EventLine(c)) =>
                /\ Cardinality(CallsFor(n)) <= 1
                /\ \A i \in CallsFor(n) :
                       /\ callLog[i].op = "logger.log"
                       /\ callLog[i].args.values = <<Image(c.pos[1])>>
                       /\ callLog[i].args.object = ImageHash(c.kw)
                /\ \A p \in HandlerOf(n) :
                       Started(p) => Cardinality(CallsFor(n)) = 1

(* C29: the helper and the host agree on the events that block: whenever
   a method of the helper has written its event line, the child is blocked
   reading stdin if and only if handleTriggerEvent returns true for the
   event the host decodes from that line. *)
C29_BlockingAgreement ==
    [][emitted' = emitted + 1 =>
          LET r == JSONParse(slice(written'[emitted']))
          IN  /\ r.ok
              /\ (childState' = "blocked")
                     <=> handleTriggerEvent(r.value).needsAck]_vars

\* A line in which an event of the helper stands, at its start or after
\* other text.
HoldsEvent(line) == \E i \in DOMAIN line : line[i] = EVENT_PREFIX

(* C30: whatever the child wrote before, an event the helper emits is taken
   for an event by the host: every line read that holds an event of the
   helper has a handler and is not pushed on stdoutLines, and the child is
   never blocked on a wait whose line the host has read without creating a
   handler for it. *)
C30_HelperEventsAreClassified ==
    /\ \A n \in DOMAIN Consumed :
           HoldsEvent(written[n]) =>
               /\ HandlerOf(n) # {}
               /\ \A k \in DOMAIN stdoutLines : stdoutLines[k] # written[n]
    /\ childState = "blocked" =>
           ~(blockedOn \in DOMAIN Consumed /\ HandlerOf(blockedOn) = {})

\* The texts of the events whose methods pass wait_for_ack: true.
AckedJson == {WaitForJson, WaitUntilJson}

\* A line the child has written whose end is an event that asks for an
\* acknowledgment.
EndsWithAckedEvent(line) ==
    /\ Len(line) >= 2
    /\ line[Len(line) - 1] = EVENT_PREFIX
    /\ line[Len(line)] \in AckedJson

(* C31: the helper reads from stdin only for an event it has delivered:
   whenever the child is blocked in $stdin.gets, the line of the event it
   waits for has left the process whole (nothing of it is still in the
   buffer of $stdout), it is the last line written, and it is the line of
   an event emitted with wait_for_ack; a heartbeat never blocks. *)
C31_BlocksOnlyAfterDelivery ==
    childState = "blocked" =>
        /\ partial = <<>>
        /\ blockedOn = Len(written)
        /\ blockedOn \in DOMAIN written
        /\ EndsWithAckedEvent(written[blockedOn])

\* The child is blocked on a wait it emitted after a print without newline
\* and after a heartbeat: text and event left the process as one line.
C31_Witness ==
    /\ childState = "blocked"
    /\ blockedOn = 2
    /\ written[1] = <<EVENT_PREFIX, HeartbeatJson>>
    /\ written[2] = <<"working", EVENT_PREFIX, WaitForJson>>

\* The properties of an event besides type and message.
ExtraFields(event) ==
    {f \in event.fields : f[1] # "type" /\ f[1] # "message"}

(* C32: every call of logger.log the host makes for a log event passes the
   message of the event, then no attributes (undefined) when the event has
   no property besides type and message, and otherwise exactly the further
   properties of the event; the attributes never hold type or message. *)
C32_LogAttributes ==
    \A i \in DOMAIN callLog :
        callLog[i].op = "logger.log" =>
            LET event == promises[callLog[i].p].event
                args  == callLog[i].args
            IN  /\ args.values = <<Field(event, "message")>>
                /\ args.hasObject <=> ExtraFields(event) # {}
                /\ args.hasObject => args.object = ExtraFields(event)
                /\ \A f \in args.object : f[1] \notin {"type", "message"}

\* log("processing row") and log("processing row", index: 5): the first
\* call of logger.log has no attributes, the second has index alone.
C32_Witness ==
    /\ Len(callLog) = 2
    /\ callLog[1].op = "logger.log" /\ ~callLog[1].args.hasObject
    /\ callLog[2].op = "logger.log" /\ callLog[2].args.hasObject
    /\ callLog[2].args.object = {<<"index", JSNumber("5")>>}

(* C33: the child sees the host's TRACEPARENT, OTEL_RESOURCE_ATTRIBUTES and
   OTEL_LOG_LEVEL whatever options.env holds under these names: when the
   host has a value for the name the child sees that value, and when the
   host has none (no traceparent in the carrier) the child does not see the
   caller's value either. *)
C33_HostTelemetryWins ==
    launch.status = "spawned" =>
        \A k \in TelemetryNames :
            LET host   == Telemetry(request.traceparent)[k]
                caller == ValueOf(request.env, k)
            IN  /\ host.kind = "text" => ValueOf(launch.env, k) = host
                /\ (host.kind # "text" /\ caller.kind = "text") =>
                       ValueOf(launch.env, k) # caller

\* The object-parameter runRailsScript was called with a TRACEPARENT of the
\* caller while the carrier holds a traceparent: the child has the
\* carrier's.
C33_Witness ==
    /\ variant = "rails" /\ launch.status = "spawned"
    /\ ValueOf(request.env, "TRACEPARENT") = Text(<<"00-caller">>)
    /\ request.traceparent = Text(<<"00-trace">>)
    /\ ValueOf(launch.env, "TRACEPARENT") = Text(<<"00-trace">>)

(* C34: the script path and every script argument reach the command as one
   argument each, equal to the string the caller passed, and no character
   of them is taken for shell syntax: whenever a child was spawned, the
   command line was one command and its last arguments are the script path
   followed by the scriptArgs of the request. *)
C34_ArgumentsReachTheCommand ==
    launch.status = "spawned" =>
        LET n == Len(request.scriptArgs)
            m == Len(launch.args)
        IN  /\ launch.simple
            /\ m >= n + 1
            /\ launch.args[m - n] = <<request.path>>
            /\ \A i \in 1..n : launch.args[m - n + i] = request.scriptArgs[i]

(* C35: every variable the export statements are built from reaches the
   child with the text it had: in the object-parameter runRailsScript, for
   every name whose value in buildEnvironmentVariables is defined,
   TRIGGER_PAYLOAD with the JSON text of options.payload included, the
   child's value of the name is that text. *)
C35_ExportedValuesArrive ==
    (variant = "rails" /\ launch.status = "spawned") =>
        LET envVars == buildEnvironmentVariables(request.env, request.payload,
                                                 request.traceparent)
        IN  \A k \in DOMAIN envVars :
                envVars[k].kind = "text" =>
                    ValueOf(launch.env, k) = envVars[k]

(* C36: the helper resolves its API key and its API URL by: the argument
   given to configure (or new), else the environment variable, else, for
   the URL, the default.  Every request trigger sends goes to the URL given
   to the last configure if one was given, else to TRIGGER_API_URL if it is
   set, else to https://api.trigger.dev, and carries the key given or else
   TRIGGER_API_KEY, whether or not configure was called before. *)
C36_KeyAndUrlResolution ==
    [][Len(client'.posts) > Len(client.posts) =>
          LET post == client'.posts[Len(client'.posts)]
              ENV  == client.env
          IN  /\ post.url =
                     IF client.given_url.kind = "text"
                     THEN client.given_url.text
                     ELSE IF "TRIGGER_API_URL" \in DOMAIN ENV
                     THEN ENV["TRIGGER_API_URL"].text
                     ELSE DefaultApiUrl
              /\ post.key =
                     IF client.given_key.kind = "text"
                     THEN client.given_key.text
                     ELSE ENV["TRIGGER_API_KEY"].text]_vars

(* C37: for the target dev, onBuildComplete sets process.env.RUBY_BIN_PATH
   to devRubyBinaryPath when one is given (the empty string counts as not
   given) and to /usr/bin/ruby otherwise, leaves the rest of the
   environment alone and adds no layer, and a runScript called afterwards
   spawns that binary; for another target it leaves the environment
   unchanged and adds the one layer ruby-installation. *)
C37_BuildSetsRubyBinary ==
    [][LET given == build'.options.devRubyBinaryPath
           path  == IF given.kind = "text" /\ given.text # <<>>
                    THEN given.text ELSE <<"/usr/bin/ruby">>
       IN  /\ (build.target = "none" /\ build'.target = "dev") =>
                  /\ request'.processEnv["RUBY_BIN_PATH"] = Text(path)
                  /\ \A k \in DOMAIN request.processEnv \ {"RUBY_BIN_PATH"} :
                         request'.processEnv[k] = request.processEnv[k]
                  /\ DOMAIN request'.processEnv =
                         DOMAIN request.processEnv \cup {"RUBY_BIN_PATH"}
                  /\ build'.layers = <<>>
           /\ (build.target = "none" /\ build'.target \notin {"none", "dev"}) =>
                  /\ request' = request
                  /\ Len(build'.layers) = 1
                  /\ build'.layers[1].id = "ruby-installation"
           /\ (build.target = "dev" /\ launch.status = "none"
                  /\ launch'.status = "spawned") =>
                  launch'.bin = path]_vars

\* The build for dev with devRubyBinaryPath /opt/dev/ruby has completed and
\* runScript has spawned that binary for a process that had another
\* RUBY_BIN_PATH before.
C37_Witness ==
    /\ build.target = "dev"
    /\ build.options.devRubyBinaryPath = Text(<<"/opt/dev/ruby">>)
    /\ build.layers = <<>>
    /\ launch.status = "spawned"
    /\ launch.bin = <<"/opt/dev/ruby">>

(* C38: a call of trigger made while no API key is available (none given to
   the last configure or new, TRIGGER_API_KEY unset) raises the
   configuration error and sends no request, whatever calls of configure
   and trigger came before. *)
C38_NoKeyNoRequest ==
    [][(client'.triggers = client.triggers + 1
           /\ client.given_key = Nil
           /\ "TRIGGER_API_KEY" \notin DOMAIN client.env) =>
          /\ client'.raised = "ConfigurationError"
          /\ client'.posts = client.posts]_vars

\* Two calls of trigger have raised the configuration error with no request
\* sent, the second after configure was called with a URL and no key.
C38_Witness ==
    /\ client.triggers = 2
    /\ client.raised = "ConfigurationError"
    /\ client.posts = <<>>
    /\ client.given_url = Text(<<"https://arg.example">>)
    /\ client.given_key = Nil

=============================================================================
